---- MODULE Spec2Model ----
(***************************************************************************)
(* omni-db: circuit breaker, failover router, health monitor and the       *)
(* orchestrator that composes them.                                        *)
(*                                                                         *)
(* The specifications of this module:                                      *)
(*   SpecCB       one CircuitBreaker driven through its public methods     *)
(*   SpecResolve  FailoverRouter.resolve applied to drawn status lookups   *)
(*   SpecHealth   the Orchestrator: connect/disconnect, the periodic       *)
(*                health cycle, recordSuccess/recordFailure, getStats      *)
(*   SpecRoute    the Orchestrator: get/execute against health cycles      *)
(*   SpecExec     the Orchestrator: overlapping execute calls              *)
(*   SpecListen   the Orchestrator: get() called from a listener of a      *)
(*                circuit notification of the health cycle                 *)
(*   SpecCycle    the health cycle alone, each check bound to settle       *)
(*   SpecCheck    HealthMonitor.check with its retry loop                  *)
(*   SpecRaise    the Orchestrator: execute with fn resolving or raising   *)
(*   SpecShutdown the Orchestrator: shutdownOnSignal, signals, disconnect  *)
(*   SpecTrial    one CircuitBreaker: the execute() calls half-open admits *)
(*   SpecParse    parseDuration applied to drawn strings                   *)
(*   SpecConstruct      new Orchestrator(config) on drawn configs          *)
(*   SpecBreakerConfig  new CircuitBreaker(config) on drawn configs        *)
(*   SpecConnect        the Orchestrator: connect() / disconnect() calls   *)
(*   SpecMonitor        HealthMonitor.start / stop and its interval timer  *)
(*   SpecFailoverSet    FailoverRouter activate / deactivateFailover       *)
(*   SpecRouter         FailoverRouter.resolve between (de)activations     *)
(*   SpecFrame          the Orchestrator: public calls against the cycle   *)
(*   SpecTimeout        HealthMonitor.check with probes that never finish  *)
(***************************************************************************)
EXTENDS Naturals, Integers, Sequences, FiniteSets, Bags, TLC

\* ---------------------------------------------------------------- bounds
\* last wall-clock instant the model reaches (Date.now() values 1..MaxTime)
MaxTime == 3
\* last wall-clock instant an orchestrator run reaches
MaxClock == 2
\* cap on the (unbounded) failure counter of a breaker
MaxFailures == 3
\* number of operations that may be awaited inside execute() at once
MaxOps == 2
\* number of health-check cycles that may be awaited at once
MaxCycles == 2
\* largest threshold / resetTimeout / halfOpenSuccesses a breaker is built with
MaxThreshold == 2
MaxResetTimeout == 2
MaxHalfOpenSuccesses == 2
\* largest retries a health monitor is configured with
MaxRetries == 2
\* number of shutdownOnSignal() registrations one run makes
MaxRegs == 2
\* longest duration string handed to parseDuration
MaxLen == 5
\* number of calls one run makes on a stand-alone object
MaxCalls == 3
\* number of activateFailover / deactivateFailover calls one run makes
MaxSetCalls == 5

\* ------------------------------------------------- circuit breaker (pure)
\* #nextAttemptTime = null
NullTime == 0

\* field initialisers of class CircuitBreaker
NewCircuit == [state |-> "closed", failures |-> 0, successCount |-> 0,
               nextAttemptTime |-> NullTime]

\* faulty variant: the comparison excludes the scheduled instant itself
TryTransitionToHalfOpenLate(c, t) ==
    IF c.state = "open" /\ c.nextAttemptTime # NullTime /\ t > c.nextAttemptTime
    THEN [c EXCEPT !.state = "half-open", !.successCount = 0]
    ELSE c

\* #tryTransitionToHalfOpen()
TryTransitionToHalfOpen(c, t) ==
    IF c.state = "open" /\ c.nextAttemptTime # NullTime /\ t >= c.nextAttemptTime
    THEN [c EXCEPT !.state = "half-open", !.successCount = 0]
    ELSE c

\* value returned by canExecute(), given the breaker after the state getter ran
CanExecuteOf(c) == c.state = "closed" \/ c.state = "half-open"

\* faulty variant: a success while closed leaves the failure counter alone
OnSuccessKeepFailures(c, h) ==
    IF c.state = "half-open"
    THEN IF c.successCount + 1 >= h
         THEN [c EXCEPT !.failures = 0, !.successCount = @ + 1, !.state = "closed"]
         ELSE [c EXCEPT !.failures = 0, !.successCount = @ + 1]
    ELSE c

\* faulty variant: half-open closes one success too early
OnSuccessEarlyClose(c, h) ==
    IF c.state = "half-open"
    THEN IF c.successCount + 2 >= h
         THEN [c EXCEPT !.failures = 0, !.successCount = @ + 1, !.state = "closed"]
         ELSE [c EXCEPT !.failures = 0, !.successCount = @ + 1]
    ELSE [c EXCEPT !.failures = 0]

\* #onSuccess()
OnSuccess(c, h) ==
    IF c.state = "half-open"
    THEN IF c.successCount + 1 >= h
         THEN [c EXCEPT !.failures = 0, !.successCount = @ + 1, !.state = "closed"]
         ELSE [c EXCEPT !.failures = 0, !.successCount = @ + 1]
    ELSE [c EXCEPT !.failures = 0]

\* #onFailure(): the breaker afterwards
OnFailure(c, t, th, rt) ==
    IF c.state = "half-open"
    THEN [c EXCEPT !.failures = @ + 1, !.state = "open", !.nextAttemptTime = t + rt]
    ELSE IF c.failures + 1 >= th
         THEN [c EXCEPT !.failures = @ + 1, !.state = "open", !.nextAttemptTime = t + rt]
         ELSE [c EXCEPT !.failures = @ + 1]

\* #onFailure(): the value it returns ("true if circuit opened")
OnFailureReturns(c, th) == c.state = "half-open" \/ c.failures + 1 >= th

\* reset()
ResetCircuit(c) == [state |-> "closed", failures |-> 0, successCount |-> 0,
                    nextAttemptTime |-> NullTime]

\* faulty variant: open() schedules no next attempt
OpenCircuitUnscheduled(c, t, rt) == [c EXCEPT !.state = "open"]

\* open()
OpenCircuit(c, t, rt) == [c EXCEPT !.state = "open", !.nextAttemptTime = t + rt]

\* faulty variant: execute() runs the operation whatever the state
ExecuteAdmitsAlways(c) == TRUE

\* execute(): the fast-fail test, on the breaker after #tryTransitionToHalfOpen()
ExecuteAdmits(c) == c.state # "open"

\* ------------------------------------------------- failover router (pure)
\* HealthStatus, and the undefined getStatus() answers for an unknown name
Statuses == {"healthy", "degraded", "unhealthy"}
Undefined == "undefined"

\* faulty variant: a degraded primary is treated as usable
ResolveDegradedStays(fmap, name, getStatus) ==
    IF getStatus[name] \in {"healthy", "degraded", Undefined}
    THEN [name |-> name, isFailover |-> FALSE]
    ELSE IF name \notin DOMAIN fmap
    THEN [name |-> name, isFailover |-> FALSE]
    ELSE IF getStatus[fmap[name]] = "unhealthy"
    THEN [name |-> name, isFailover |-> FALSE]
    ELSE [name |-> fmap[name], isFailover |-> TRUE]

\* FailoverRouter.resolve(name, getStatus); fmap is #failoverMap
Resolve(fmap, name, getStatus) ==
    IF getStatus[name] = "healthy" \/ getStatus[name] = Undefined
    THEN [name |-> name, isFailover |-> FALSE]
    ELSE IF name \notin DOMAIN fmap
    THEN [name |-> name, isFailover |-> FALSE]
    ELSE IF getStatus[fmap[name]] = "unhealthy"
    THEN [name |-> name, isFailover |-> FALSE]
    ELSE [name |-> fmap[name], isFailover |-> TRUE]

\* the router of SpecResolve: three names, chained mapping a -> b -> c
RNames == {"a", "b", "c"}
RFailover == [n \in {"a", "b"} |-> IF n = "a" THEN "b" ELSE "c"]
NoResult == [name |-> "-", isFailover |-> FALSE]

\* --------------------------------------------------- orchestrator (config)
\* connections { primary, backup }, failover { primary: 'backup' }, a probe
\* for every name, no retry configured, circuitBreaker { threshold, resetTimeout,
\* halfOpenSuccesses } as below when circuit protection is configured
OrchThreshold == 1
OrchResetTimeout == 1
OrchHalfOpenSuccesses == 1
Names == {"primary", "backup"}
FailoverConfig == [n \in {"primary"} |-> "backup"]
Checks == {"primary", "backup"}
ProbeOutcomes == {"healthy", "degraded", "false", "throw", "timeout"}
\* one outcome per status a probe can produce
StatusOutcomes == {"healthy", "degraded", "throw"}

Ev(type, name, x, y) == [type |-> type, name |-> name, x |-> x, y |-> y]
NoEvent == Ev("-", "-", "-", "-")
IdleCheck == [pc |-> "idle", prev |-> "healthy"]
IdleOp == [st |-> "idle", name |-> "-", client |-> "-", circuit |-> "-"]

\* HealthMonitor.check: lastError = null, and the error an attempt raised
NullError == [kind |-> "null", attempt |-> 0]
Err(kind, attempt) == [kind |-> kind, attempt |-> attempt]
NoCheckResult == [status |-> "-", error |-> NullError]

\* no check() call in progress on a monitor without retry and without probe
NoCheck == [retries |-> 0, hasProbe |-> FALSE, pc |-> "idle", attempts |-> 0,
            lastError |-> NullError, delays |-> 0, outs |-> <<>>,
            result |-> NoCheckResult]

\* one shutdownOnSignal() registration that was never made
NoReg == [installed |-> FALSE, shuttingDown |-> FALSE, exitProcess |-> FALSE,
          awaiting |-> 0, signals |-> 0, shutdowns |-> 0, batches |-> 0,
          exits |-> 0]

\* #signalCleanup = null, no handler installed, the process alive
NoShutdown == [cleanup |-> 0, n |-> 0, regs |-> [i \in 1..MaxRegs |-> NoReg],
               exited |-> FALSE, last |-> "-"]

\* no constructor has been called
NoCtor == [class |-> "-", config |-> <<>>, outcome |-> "-", error |-> "-",
           instance |-> <<>>]

\* HealthMonitor fields right after construction; no timer exists
NoMon == [intervalMs |-> 1, running |-> FALSE, intervalId |-> 0, timers |-> {},
          created |-> 0, calls |-> 0, last |-> "-", invoked |-> 0]

\* connect() / disconnect() have not been called, nothing was emitted
NoConn == [calls |-> 0, last |-> "-", was |-> FALSE, emitted |-> <<>>]

\* FailoverRouter: #activeFailovers = new Set(), no call made
NoFr == [map |-> RFailover, active |-> <<>>, calls |-> 0,
         last |-> [n \in RNames |-> "-"]]

\* parseDuration has not been called: no argument, no result
NoParse == [input |-> [isString |-> FALSE, chars |-> <<>>],
            result |-> [ok |-> FALSE, ms |-> 0, error |-> "-"]]

\* -------------------------------------------------------------- variables
VARIABLES
    now,                \* Date.now()
    threshold,          \* CircuitBreaker #threshold
    resetTimeout,       \* CircuitBreaker #resetTimeout
    halfOpenSuccesses,  \* CircuitBreaker #halfOpenSuccesses
    \* --- SpecCB: one breaker
    cb,                 \* #state, #failures, #successCount, #nextAttemptTime
    cbInflight,         \* operations awaited inside execute()
    cbLast,             \* the last method called and what it returned / raised
    cbConsec,           \* history: failures recorded since the last recorded success
    cbHoSucc,           \* history: successes recorded since half-open was entered
    cbOpenedAt,         \* history: instant of the last step that opened the breaker
    cbForced,           \* history: open() or reset() has been called
    cbTrials,           \* history: execute() calls admitted since half-open was entered
    \* --- SpecResolve: one router and a status lookup
    rStatus,            \* the getStatus callback, as a table
    rName,              \* argument of the last resolve()
    rResult,            \* what it returned
    \* --- SpecHealth, SpecRoute, SpecExec: the orchestrator
    cbEnabled,          \* config.circuitBreaker given (built-in breaker per name)
    status,             \* HealthMonitor #status
    circuits,           \* Orchestrator #circuits
    activeFailovers,    \* FailoverRouter #activeFailovers
    failoverCache,      \* Orchestrator #failoverCache
    connected,          \* Orchestrator #connected
    running,            \* HealthMonitor #running (an interval timer is installed)
    cycles,             \* #runHealthChecks invocations awaited: per name pc and previousStatus
    ops,                \* execute() calls awaiting fn(client), as a bag
    lastFo,             \* history: per name, the last of failover / recovery emitted
    lastDone,           \* history: the last execute() that recorded its outcome
    lastSync,           \* history: the circuit notification emitted by the latest
                        \* per-name callback of a health cycle, NoEvent if none
    \* --- SpecCheck: one HealthMonitor.check call
    hc,                 \* retry config, probe registered, attempts, lastError, history
    \* --- SpecShutdown: signal handlers of the orchestrator
    sh,                 \* #signalCleanup, the handlers process.on holds, their latches
    \* --- SpecParse: one parseDuration call
    pd,                 \* the argument and what the call returned or raised
    \* --- SpecConstruct, SpecBreakerConfig: one constructor call
    ctor,               \* the class, the config given, raised or the instance built
    \* --- SpecMonitor: HealthMonitor start / stop
    mon,                \* #running, #intervalId, the interval timers that exist
    \* --- SpecConnect: connect / disconnect of the orchestrator
    conn,               \* history: calls made, rounds of notifications emitted
    \* --- SpecFailoverSet: activateFailover / deactivateFailover of one router
    fr                  \* #activeFailovers in insertion order, last call per name

cbVars == <<cb, cbInflight, cbLast, cbConsec, cbHoSucc, cbOpenedAt, cbForced, cbTrials>>
cfgVars == <<threshold, resetTimeout, halfOpenSuccesses>>
rVars == <<rStatus, rName, rResult>>
oVars == <<cbEnabled, status, circuits, activeFailovers, failoverCache, connected,
           running, cycles, ops, lastFo, lastDone, lastSync>>
zVars == <<pd, ctor, mon, conn, fr>>
xVars == <<hc, sh, zVars>>
vars == <<now, cfgVars, cbVars, rVars, oVars, xVars>>

Min(a, b) == IF a <= b THEN a ELSE b
BoolStr(b) == IF b THEN "true" ELSE "false"
FailureOps == {"failure", "complete-failure"}
SuccessOps == {"success", "complete-success"}
QueryOps == {"state", "canExecute", "execute"}

\* orchestrator fields right after construction
OFields ==
    /\ status = [n \in Names |-> "healthy"]
    /\ circuits = [n \in Names |-> NewCircuit]
    /\ activeFailovers = {}
    /\ failoverCache = [n \in Names |-> NoResult]
    /\ connected = FALSE
    /\ running = FALSE
    /\ cycles = [k \in 1..MaxCycles |-> [n \in Names |-> IdleCheck]]
    /\ ops = EmptyBag
    /\ lastFo = [n \in Names |-> "none"]
    /\ lastDone = IdleOp
    /\ lastSync = NoEvent
    /\ sh = NoShutdown

\* nothing has been called on the stand-alone functions and classes
ZIdle == pd = NoParse /\ ctor = NoCtor /\ mon = NoMon /\ conn = NoConn /\ fr = NoFr

OIdle == OFields /\ cbEnabled = TRUE /\ hc = NoCheck /\ ZIdle

\* ------------------------------------------------------------------ SpecCB
\* history variables, updated alike by every method of the breaker
CBHistory(op, c2) ==
    /\ cbConsec' = IF op \in SuccessOps THEN 0
                   ELSE IF op \in FailureOps THEN Min(cbConsec + 1, MaxFailures + 1)
                   ELSE cbConsec
    /\ cbHoSucc' = IF cb.state # "half-open" /\ c2.state = "half-open" THEN 0
                   ELSE IF cb.state = "half-open" /\ op \in SuccessOps
                        THEN Min(cbHoSucc + 1, MaxHalfOpenSuccesses + 1)
                   ELSE cbHoSucc
    /\ cbOpenedAt' = IF op = "open" \/ (op \in FailureOps /\ OnFailureReturns(cb, threshold))
                     THEN now ELSE cbOpenedAt
    /\ cbForced' = (cbForced \/ op \in {"open", "reset"})

\* constructor: validated configuration, fields at their initialisers
InitCB ==
    /\ now = 1
    /\ threshold \in 1..MaxThreshold
    /\ resetTimeout \in 0..MaxResetTimeout
    /\ halfOpenSuccesses \in 1..MaxHalfOpenSuccesses
    /\ cb = NewCircuit
    /\ cbInflight = 0
    /\ cbLast = [op |-> "new", res |-> "-"]
    /\ cbConsec = 0
    /\ cbHoSucc = 0
    /\ cbOpenedAt = 0
    /\ cbForced = FALSE
    /\ cbTrials = 0
    /\ rStatus = [n \in RNames |-> "healthy"]
    /\ rName = "-"
    /\ rResult = NoResult
    /\ OIdle

\* the clock advances between two calls
CBTick ==
    /\ now < MaxTime
    /\ now' = now + 1
    /\ cbLast' = [op |-> "tick", res |-> "-"]
    /\ UNCHANGED <<xVars, oVars, rVars, cfgVars, cb, cbInflight, cbConsec, cbHoSucc, cbOpenedAt, cbForced>>

\* get state()
CBState ==
    /\ cb' = TryTransitionToHalfOpen(cb, now)
    /\ cbLast' = [op |-> "state", res |-> cb'.state]
    /\ CBHistory("state", cb')
    /\ UNCHANGED <<xVars, oVars, rVars, now, cfgVars, cbInflight>>

\* canExecute()
CBCanExecute ==
    /\ cb' = TryTransitionToHalfOpen(cb, now)
    /\ cbLast' = [op |-> "canExecute", res |-> BoolStr(CanExecuteOf(cb'))]
    /\ CBHistory("canExecute", cb')
    /\ UNCHANGED <<xVars, oVars, rVars, now, cfgVars, cbInflight>>

\* execute(fn) up to its await: fast-fail, or call fn and suspend
CBExecute ==
    LET c1 == TryTransitionToHalfOpen(cb, now) IN
    /\ cb' = c1
    /\ IF ExecuteAdmits(c1)
       THEN /\ cbInflight < MaxOps
            /\ cbInflight' = cbInflight + 1
            /\ cbLast' = [op |-> "execute", res |-> "invoked"]
       ELSE /\ cbInflight' = cbInflight
            /\ cbLast' = [op |-> "execute", res |-> "circuit-open"]
    /\ CBHistory("execute", c1)
    /\ UNCHANGED <<xVars, oVars, rVars, now, cfgVars>>

\* execute(fn) after its await: fn resolved
CBCompleteSuccess ==
    /\ cbInflight > 0
    /\ cbInflight' = cbInflight - 1
    /\ cb' = OnSuccess(cb, halfOpenSuccesses)
    /\ cbLast' = [op |-> "complete-success", res |-> "-"]
    /\ CBHistory("complete-success", cb')
    /\ UNCHANGED <<xVars, oVars, rVars, now, cfgVars>>

\* execute(fn) after its await: fn rejected
CBCompleteFailure ==
    /\ cbInflight > 0
    /\ cb.failures < MaxFailures
    /\ cbInflight' = cbInflight - 1
    /\ cb' = OnFailure(cb, now, threshold, resetTimeout)
    /\ cbLast' = [op |-> "complete-failure", res |-> "-"]
    /\ CBHistory("complete-failure", cb')
    /\ UNCHANGED <<xVars, oVars, rVars, now, cfgVars>>

\* success()
CBSuccess ==
    /\ cb' = OnSuccess(cb, halfOpenSuccesses)
    /\ cbLast' = [op |-> "success", res |-> "-"]
    /\ CBHistory("success", cb')
    /\ UNCHANGED <<xVars, oVars, rVars, now, cfgVars, cbInflight>>

\* failure()
CBFailure ==
    /\ cb.failures < MaxFailures
    /\ cb' = OnFailure(cb, now, threshold, resetTimeout)
    /\ cbLast' = [op |-> "failure", res |-> BoolStr(OnFailureReturns(cb, threshold))]
    /\ CBHistory("failure", cb')
    /\ UNCHANGED <<xVars, oVars, rVars, now, cfgVars, cbInflight>>

\* open()
CBOpen ==
    /\ cb' = OpenCircuit(cb, now, resetTimeout)
    /\ cbLast' = [op |-> "open", res |-> "-"]
    /\ CBHistory("open", cb')
    /\ UNCHANGED <<xVars, oVars, rVars, now, cfgVars, cbInflight>>

\* reset()
CBReset ==
    /\ cb' = ResetCircuit(cb)
    /\ cbLast' = [op |-> "reset", res |-> "-"]
    /\ CBHistory("reset", cb')
    /\ UNCHANGED <<xVars, oVars, rVars, now, cfgVars, cbInflight>>

NextCB ==
    \/ CBTick /\ UNCHANGED cbTrials
    \/ CBState /\ UNCHANGED cbTrials
    \/ CBCanExecute /\ UNCHANGED cbTrials
    \/ CBExecute /\ UNCHANGED cbTrials
    \/ CBCompleteSuccess /\ UNCHANGED cbTrials
    \/ CBCompleteFailure /\ UNCHANGED cbTrials
    \/ CBSuccess /\ UNCHANGED cbTrials
    \/ CBFailure /\ UNCHANGED cbTrials
    \/ CBOpen /\ UNCHANGED cbTrials
    \/ CBReset /\ UNCHANGED cbTrials

SpecCB == InitCB /\ [][NextCB]_vars

\* ------------------------------------------------------ claims on SpecCB
\* C4: for a breaker on which neither open() nor reset() was called, a step
\* taken while closed leaves closed exactly when it records the failure that
\* brings the failures recorded since the last success to the threshold, the
\* breaker is then open with next-attempt time = now + resetTimeout, and a
\* success recorded while closed leaves the failure counter at zero.
C4_OpensAtThreshold ==
    [][(cb.state = "closed" /\ ~cbForced') =>
        /\ cb.failures = cbConsec
        /\ (cb'.state # "closed") <=> (cbLast'.op \in FailureOps /\ cbConsec' = threshold)
        /\ cb'.state # "closed" =>
              (cb'.state = "open" /\ cb'.nextAttemptTime = now + resetTimeout)
        /\ cbLast'.op \in SuccessOps => cb'.failures = 0]_vars

C4_Witness ==
    /\ ~cbForced
    /\ threshold = 2
    /\ cb.state = "open"
    /\ cbLast.op = "complete-failure"
    /\ cbConsec = 2
    /\ cb.nextAttemptTime = now + resetTimeout

\* C5: while half-open the success counter equals the successes recorded since
\* half-open was entered (it restarts at zero on entry); a recorded success
\* closes the breaker exactly when that number reaches halfOpenSuccesses, no
\* step other than such a success or reset() closes it, and a failure recorded
\* while half-open opens it at once with next-attempt time = now + resetTimeout.
C5_HalfOpenCloses ==
    [][/\ (cb.state # "half-open" /\ cb'.state = "half-open") => cb'.successCount = 0
       /\ cb.state = "half-open" =>
            /\ cb.successCount = cbHoSucc
            /\ cbLast'.op \in SuccessOps =>
                  /\ (cb'.state = "closed") <=> (cbHoSucc' = halfOpenSuccesses)
                  /\ cb'.state \in {"closed", "half-open"}
            /\ cbLast'.op \in FailureOps =>
                  (cb'.state = "open" /\ cb'.nextAttemptTime = now + resetTimeout)
            /\ cb'.state = "closed" => cbLast'.op \in (SuccessOps \cup {"reset"})]_vars

C5_Witness ==
    /\ halfOpenSuccesses = 2
    /\ cb.state = "closed"
    /\ cbLast.op = "complete-success"
    /\ cbHoSucc = 2
    /\ cb.successCount = 2

C7_FastFail ==
    [][(cb.state = "open" /\ now < cb.nextAttemptTime /\ cbLast'.op = "execute") =>
        /\ cbLast'.res = "circuit-open"
        /\ cbInflight' = cbInflight
        /\ cb' = cb]_vars

\* threshold = 2, two consecutive failed executions, then a rejected third call
C7_Witness ==
    /\ threshold = 2
    /\ ~cbForced
    /\ cbConsec = 2
    /\ cb.failures = 2
    /\ cb.state = "open"
    /\ cbInflight = 0
    /\ cbLast = [op |-> "execute", res |-> "circuit-open"]

\* ------------------------------------------------------------- SpecResolve
CBIdle ==
    /\ now = 1
    /\ threshold = MaxThreshold
    /\ resetTimeout = MaxResetTimeout
    /\ halfOpenSuccesses = MaxHalfOpenSuccesses
    /\ cb = NewCircuit
    /\ cbInflight = 0
    /\ cbLast = [op |-> "new", res |-> "-"]
    /\ cbConsec = 0
    /\ cbHoSucc = 0
    /\ cbOpenedAt = 0
    /\ cbForced = FALSE
    /\ cbTrials = 0

InitResolve ==
    /\ CBIdle
    /\ rStatus \in [RNames -> Statuses \cup {Undefined}]
    /\ rName = "-"
    /\ rResult = NoResult
    /\ OIdle

\* router.resolve(n, getStatus)
ResolveCall(n) ==
    /\ rName' = n
    /\ rResult' = Resolve(RFailover, n, rStatus)
    /\ UNCHANGED <<xVars, oVars, rStatus, now, cfgVars, cbVars>>

NextResolve == \E n \in RNames : ResolveCall(n)

SpecResolve == InitResolve /\ [][NextResolve]_vars

OFrame == UNCHANGED <<cfgVars, cbVars, rVars, cbEnabled, hc, sh, zVars>>

\* constructor: every name registered healthy, one built-in breaker per name
\* when config.circuitBreaker is given
OrchInit ==
    /\ now = 1
    /\ threshold = OrchThreshold
    /\ resetTimeout = OrchResetTimeout
    /\ halfOpenSuccesses = OrchHalfOpenSuccesses
    /\ cb = NewCircuit
    /\ cbInflight = 0
    /\ cbLast = [op |-> "new", res |-> "-"]
    /\ cbConsec = 0
    /\ cbHoSucc = 0
    /\ cbOpenedAt = 0
    /\ cbForced = FALSE
    /\ cbTrials = 0
    /\ rStatus = [n \in RNames |-> "healthy"]
    /\ rName = "-"
    /\ rResult = NoResult
    /\ OFields
    /\ hc = NoCheck
    /\ ZIdle

\* lowest free slot of the table of awaited health cycles
CycleInFlight(k) == \E n \in Names : cycles[k][n].pc # "idle"
FreeCycle(k) == ~CycleInFlight(k) /\ \A j \in 1..(k - 1) : CycleInFlight(j)

\* #resolveAndEmit: the cache lookup, falling back to the router
RaeResolved(name) ==
    IF failoverCache[name] # NoResult
    THEN failoverCache[name]
    ELSE Resolve(FailoverConfig, name, status)

\* faulty variant: the breaker consulted is the one of the requested name
RouteCircuitNameRequested(name, resolved) == name

\* #resolveAndEmit: the name whose breaker is consulted
RouteCircuitName(name, resolved) == resolved.name

\* #resolveAndEmit: #circuits after circuit.canExecute() ran its state getter
RaeCircuits(name) ==
    LET cn == RouteCircuitName(name, RaeResolved(name)) IN
    IF cbEnabled
    THEN [circuits EXCEPT ![cn] = TryTransitionToHalfOpen(circuits[cn], now)]
    ELSE circuits

\* #resolveAndEmit: the circuit-open error is thrown
RaeBlocked(name) ==
    /\ cbEnabled
    /\ ~CanExecuteOf(RaeCircuits(name)[RouteCircuitName(name, RaeResolved(name))])

\* faulty variant: every failover resolution is announced
IsNewFailoverAlways(name, active) == TRUE

\* #resolveAndEmit: !isInFailover(name)
IsNewFailover(name, active) == name \notin active

\* #resolveAndEmit: the notifications this call emits, in order
RaeEvents(name) ==
    LET r == RaeResolved(name) IN
    IF RaeBlocked(name) THEN <<>>
    ELSE IF r.isFailover
    THEN IF IsNewFailover(name, activeFailovers)
         THEN <<Ev("failover", name, r.name, "-")>>
         ELSE <<>>
    ELSE IF name \in activeFailovers
         THEN <<Ev("recovery", name, FailoverConfig[name], "-")>>
         ELSE <<>>

\* #resolveAndEmit(name), all but the breaker table
ResolveAndEmit(name) ==
    LET r == RaeResolved(name) IN
    /\ failoverCache' = [failoverCache EXCEPT ![name] = r]
    /\ activeFailovers' = IF RaeBlocked(name) THEN activeFailovers
                          ELSE IF r.isFailover THEN activeFailovers \cup {name}
                          ELSE activeFailovers \ {name}
    /\ lastFo' = IF RaeEvents(name) # <<>>
                 THEN [lastFo EXCEPT ![name] = RaeEvents(name)[1].type]
                 ELSE lastFo

\* get(name): what it returns (the handle of target) or raises (naming target)
GetOutcome(name) ==
    [res |-> IF RaeBlocked(name) THEN "circuit-open" ELSE "handle",
     target |-> RaeResolved(name).name]

\* get(name)
Get(name) ==
    /\ ResolveAndEmit(name)
    /\ circuits' = RaeCircuits(name)
    /\ UNCHANGED <<now, status, connected, running, cycles, ops, lastDone, lastSync>>
    /\ OFrame

\* faulty variant: the outcome is recorded on the breaker of the requested name
ExecCircuitNameRequested(name, resolvedName) == name

\* execute(): the name whose breaker wraps fn(client)
ExecCircuitName(name, resolvedName) == resolvedName

\* execute(): #circuits after #resolveAndEmit and circuit.execute()'s own check
ExecCircuits(name) ==
    LET ecn == ExecCircuitName(name, RaeResolved(name).name) IN
    IF cbEnabled /\ ~RaeBlocked(name)
    THEN [RaeCircuits(name) EXCEPT ![ecn] = TryTransitionToHalfOpen(@, now)]
    ELSE RaeCircuits(name)

\* execute(name, fn): whether fn is invoked (with the handle of target), or
\* which error is raised before that
ExecOutcome(name) ==
    LET ecn == ExecCircuitName(name, RaeResolved(name).name) IN
    [res |-> IF RaeBlocked(name) THEN "circuit-open"
             ELSE IF cbEnabled /\ ~ExecuteAdmits(ExecCircuits(name)[ecn])
             THEN "breaker-open"
             ELSE "invoked",
     target |-> RaeResolved(name).name]

\* execute(name, fn): the call it awaits - the requested name, the name whose
\* handle fn is given, the name whose breaker wraps fn
AwaitedOp(name) ==
    [st |-> "running", name |-> name, client |-> RaeResolved(name).name,
     circuit |-> IF cbEnabled THEN ExecCircuitName(name, RaeResolved(name).name)
                 ELSE "-"]

\* execute(name, fn) up to its await, with fewer than limit calls awaited
ExecuteStart(name, limit) ==
    /\ ResolveAndEmit(name)
    /\ circuits' = ExecCircuits(name)
    /\ IF ExecOutcome(name).res = "invoked"
       THEN /\ BagCardinality(ops) < limit
            /\ ops' = ops (+) SetToBag({AwaitedOp(name)})
       ELSE ops' = ops
    /\ UNCHANGED <<now, status, connected, running, cycles, lastDone, lastSync>>
    /\ OFrame

\* execute(name, fn) after its await: fn(client) resolved (ok) or rejected
ExecuteSettled(op, ok) ==
    /\ BagIn(op, ops)
    /\ (cbEnabled /\ ~ok) => circuits[op.circuit].failures < MaxFailures
    /\ circuits' = IF ~cbEnabled THEN circuits
                   ELSE IF ok
                   THEN [circuits EXCEPT ![op.circuit] = OnSuccess(@, halfOpenSuccesses)]
                   ELSE [circuits EXCEPT ![op.circuit] =
                             OnFailure(@, now, threshold, resetTimeout)]
    /\ ops' = ops (-) SetToBag({op})
    /\ UNCHANGED <<now, status, activeFailovers, failoverCache, connected, running,
                   cycles, lastFo, lastSync>>
    /\ OFrame

\* faulty variant: the error of fn is caught and not thrown again
ExecuteSettlesSwallowing(ok) == "resolved"

\* circuit.execute() / execute(): how the caller's promise settles - resolved
\* with the value of fn(client), or rejected with the very error fn raised
ExecuteSettlesAs(ok) == IF ok THEN "resolved" ELSE "rejected"

\* the same step, with the call that settled recorded in the history
ExecuteComplete(op, ok) ==
    /\ ExecuteSettled(op, ok)
    /\ lastDone' = [op EXCEPT !.st = ExecuteSettlesAs(ok)]

\* the same step where the history of settled calls is not kept
ExecuteCompleteUnobserved(op, ok) == ExecuteSettled(op, ok) /\ UNCHANGED lastDone

\* recordSuccess(name): the notifications it emits
RecordSuccessEvents(name) ==
    IF cbEnabled /\ TryTransitionToHalfOpen(circuits[name], now).state # "closed"
    THEN <<Ev("circuit:close", name, "-", "-")>>
    ELSE <<>>

\* recordSuccess(name)
RecordSuccess(name) ==
    /\ cbEnabled
    /\ circuits' = [circuits EXCEPT ![name] =
                       OnSuccess(TryTransitionToHalfOpen(@, now), halfOpenSuccesses)]
    /\ UNCHANGED <<now, status, activeFailovers, failoverCache, connected, running,
                   cycles, ops, lastFo, lastDone, lastSync>>
    /\ OFrame

\* recordFailure(name): the notifications it emits
RecordFailureEvents(name) ==
    IF cbEnabled /\ OnFailureReturns(circuits[name], threshold)
    THEN <<Ev("circuit:open", name, "-", "-")>>
    ELSE <<>>

\* recordFailure(name)
RecordFailure(name) ==
    /\ cbEnabled
    /\ circuits[name].failures < MaxFailures
    /\ circuits' = [circuits EXCEPT ![name] = OnFailure(@, now, threshold, resetTimeout)]
    /\ UNCHANGED <<now, status, activeFailovers, failoverCache, connected, running,
                   cycles, ops, lastFo, lastDone, lastSync>>
    /\ OFrame

\* getStats(): reads circuit.state of every breaker
GetStats ==
    /\ cbEnabled
    /\ circuits' = [n \in Names |-> TryTransitionToHalfOpen(circuits[n], now)]
    /\ UNCHANGED <<now, status, activeFailovers, failoverCache, connected, running,
                   cycles, ops, lastFo, lastDone, lastSync>>
    /\ OFrame

\* connect(): HealthMonitor.start installs the interval timer
Connect ==
    /\ ~connected
    /\ running' = TRUE
    /\ connected' = TRUE
    /\ UNCHANGED <<now, status, circuits, activeFailovers, failoverCache, cycles, ops,
                   lastFo, lastDone, lastSync>>
    /\ OFrame

\* disconnect(): the stored cleanup function is called and forgotten
SignalCleanupRun(s) ==
    IF s.cleanup # 0
    THEN [s EXCEPT !.regs[s.cleanup].installed = FALSE, !.cleanup = 0]
    ELSE s

\* disconnect(): HealthMonitor.stop clears the interval timer, the signal
\* handlers are removed
Disconnect ==
    /\ connected
    /\ running' = FALSE
    /\ connected' = FALSE
    /\ sh' = SignalCleanupRun(sh)
    /\ UNCHANGED <<now, status, circuits, activeFailovers, failoverCache, cycles, ops,
                   lastFo, lastDone, lastSync>>
    /\ UNCHANGED <<cfgVars, cbVars, rVars, cbEnabled, hc, zVars>>

\* the interval timer of HealthMonitor.start fires: #runHealthChecks up to the
\* await inside every per-name callback (previousStatus read, check() called)
CycleStart(k) ==
    /\ running
    /\ FreeCycle(k)
    /\ cycles' = [cycles EXCEPT ![k] =
                     [n \in Names |-> [pc |-> "probing", prev |-> status[n]]]]
    /\ UNCHANGED <<now, status, circuits, activeFailovers, failoverCache, connected,
                   running, ops, lastFo, lastDone, lastSync>>
    /\ OFrame

\* HealthMonitor.check with no retry configured: the result of the one attempt
CheckResult(outcome) ==
    IF outcome = "degraded" THEN [status |-> "degraded", error |-> "none"]
    ELSE IF outcome = "healthy" THEN [status |-> "healthy", error |-> "none"]
    ELSE IF outcome = "throw" THEN [status |-> "unhealthy", error |-> "thrown"]
    ELSE IF outcome = "timeout" THEN [status |-> "unhealthy", error |-> "timeout"]
    ELSE [status |-> "unhealthy", error |-> "none"]

\* faulty variant: the breaker is tripped without looking at its state
ShouldTripAlways(c) == TRUE

\* #runHealthChecks: circuit.state !== 'open', on the breaker after the getter
ShouldTrip(c) == c.state # "open"

\* #runHealthChecks: the breaker of name after the synchronisation
SyncCircuit(name, newStatus) ==
    LET c1 == TryTransitionToHalfOpen(circuits[name], now) IN
    IF newStatus = "unhealthy"
    THEN IF ShouldTrip(c1) THEN OpenCircuit(c1, now, resetTimeout) ELSE c1
    ELSE IF newStatus = "healthy"
    THEN IF c1.state = "open" THEN ResetCircuit(c1) ELSE c1
    ELSE circuits[name]

\* #runHealthChecks: the circuit notification of the synchronisation
SyncEvents(name, newStatus) ==
    LET c1 == TryTransitionToHalfOpen(circuits[name], now) IN
    IF newStatus = "unhealthy" /\ ShouldTrip(c1)
    THEN <<Ev("circuit:open", name, "health-check-failed", "-")>>
    ELSE IF newStatus = "healthy" /\ c1.state = "open"
    THEN <<Ev("circuit:close", name, "health-recovered", "-")>>
    ELSE <<>>

\* #runHealthChecks: the notifications one per-name callback emits, in order
CheckEvents(k, name, outcome) ==
    LET res == CheckResult(outcome)
        changed == res.status # cycles[k][name].prev
    IN
    (IF changed /\ cbEnabled THEN SyncEvents(name, res.status) ELSE <<>>)
    \o (IF changed
        THEN <<Ev("health:changed", name, cycles[k][name].prev, res.status)>>
        ELSE <<>>)
    \o (IF res.error # "none"
        THEN <<Ev("error", name, "health-check", res.error)>>
        ELSE <<>>)

\* faulty variant: a failed check rejects the whole cycle, whose other
\* callbacks are dropped before they apply anything
CheckSettledAborting(k, name, outcome) ==
    LET res == CheckResult(outcome)
        changed == res.status # cycles[k][name].prev
    IN
    /\ cycles[k][name].pc = "probing"
    /\ name \notin Checks => outcome = "healthy"
    /\ status' = IF changed THEN [status EXCEPT ![name] = res.status] ELSE status
    /\ circuits' = IF changed /\ cbEnabled
                   THEN [circuits EXCEPT ![name] = SyncCircuit(name, res.status)]
                   ELSE circuits
    /\ failoverCache' = IF changed THEN [n \in Names |-> NoResult] ELSE failoverCache
    /\ cycles' = IF res.status = "unhealthy"
                 THEN [cycles EXCEPT ![k] = [n \in Names |-> IdleCheck]]
                 ELSE [cycles EXCEPT ![k][name] = IdleCheck]
    /\ UNCHANGED <<now, activeFailovers, connected, running, ops, lastFo, lastDone>>
    /\ OFrame

\* #runHealthChecks: one per-name callback after its await, check() settled
CheckSettled(k, name, outcome) ==
    LET res == CheckResult(outcome)
        changed == res.status # cycles[k][name].prev
    IN
    /\ cycles[k][name].pc = "probing"
    /\ name \notin Checks => outcome = "healthy"
    /\ status' = IF changed THEN [status EXCEPT ![name] = res.status] ELSE status
    /\ circuits' = IF changed /\ cbEnabled
                   THEN [circuits EXCEPT ![name] = SyncCircuit(name, res.status)]
                   ELSE circuits
    /\ failoverCache' = IF changed THEN [n \in Names |-> NoResult] ELSE failoverCache
    /\ cycles' = [cycles EXCEPT ![k][name] = IdleCheck]
    /\ UNCHANGED <<now, activeFailovers, connected, running, ops, lastFo, lastDone>>
    /\ OFrame

\* the same step, with the circuit notification it emitted recorded in the history
CheckComplete(k, name, outcome) ==
    LET res == CheckResult(outcome)
        changed == res.status # cycles[k][name].prev
    IN
    /\ CheckSettled(k, name, outcome)
    /\ lastSync' = IF changed /\ cbEnabled /\ SyncEvents(name, res.status) # <<>>
                   THEN SyncEvents(name, res.status)[1]
                   ELSE NoEvent

\* the same step where the history of circuit notifications is not kept
CheckCompleteUnobserved(k, name, outcome) ==
    CheckSettled(k, name, outcome) /\ UNCHANGED lastSync

\* the clock advances between two steps
Tick ==
    /\ now < MaxClock
    /\ now' = now + 1
    /\ UNCHANGED <<status, circuits, activeFailovers, failoverCache, connected, running,
                   cycles, ops, lastFo, lastDone, lastSync>>
    /\ OFrame

\* -------------------------------------------------------------- SpecHealth
\* the orchestrator with circuit protection, its periodic health cycle (the
\* backup's probe always reporting healthy) and a caller's recordSuccess /
\* recordFailure for the primary and getStats
InitHealth == OrchInit /\ cbEnabled = TRUE

NextHealth ==
    \/ Tick
    \/ Connect
    \/ Disconnect
    \/ \E k \in 1..MaxCycles : CycleStart(k)
    \/ \E k \in 1..MaxCycles, o \in ProbeOutcomes : CheckComplete(k, "primary", o)
    \/ \E k \in 1..MaxCycles : CheckComplete(k, "backup", "healthy")
    \/ RecordSuccess("primary")
    \/ RecordFailure("primary")
    \/ GetStats

SpecHealth == InitHealth /\ [][NextHealth]_vars

\* --------------------------------------------------------------- SpecCycle
\* the periodic health cycle alone, cycles overlapping, with the primary's
\* probe giving any outcome; every attempt of HealthMonitor.check races its
\* probe against the timeout timer, so a per-name callback that is awaiting
\* its check gets to settle
NextCycle ==
    \/ Connect
    \/ Disconnect
    \/ \E k \in 1..MaxCycles : CycleStart(k)
    \/ \E k \in 1..MaxCycles, o \in ProbeOutcomes : CheckComplete(k, "primary", o)
    \/ \E k \in 1..MaxCycles : CheckComplete(k, "backup", "healthy")

CycleFairness ==
    \A k \in 1..MaxCycles, n \in Names :
        WF_vars(\E o \in ProbeOutcomes :
                    (n = "backup" => o = "healthy") /\ CheckComplete(k, n, o))

SpecCycle == InitHealth /\ [][NextCycle]_vars /\ CycleFairness

\* --------------------------------------------------------------- SpecRoute
\* the orchestrator with or without circuit protection: get and execute, one
\* awaited operation at a time, against health cycles that do not overlap
InitRoute ==
    /\ OrchInit
    /\ cbEnabled \in BOOLEAN

NextRoute ==
    \/ Tick
    \/ Connect
    \/ CycleStart(1)
    \/ \E n \in Names, o \in StatusOutcomes : CheckCompleteUnobserved(1, n, o)
    \/ \E n \in Names : Get(n)
    \/ \E n \in Names : ExecuteStart(n, 1)
    \/ \E op \in BagToSet(ops), ok \in BOOLEAN : ExecuteCompleteUnobserved(op, ok)

SpecRoute == InitRoute /\ [][NextRoute]_vars

\* ---------------------------------------------------------------- SpecExec
\* the orchestrator with circuit protection: overlapping execute('primary')
\* calls against the health cycle, the backup's probe always reporting healthy
InitExec == OrchInit /\ cbEnabled = TRUE

NextExec ==
    \/ Tick
    \/ Connect
    \/ CycleStart(1)
    \/ \E o \in StatusOutcomes : CheckCompleteUnobserved(1, "primary", o)
    \/ CheckCompleteUnobserved(1, "backup", "healthy")
    \/ ExecuteStart("primary", MaxOps)
    \/ \E op \in BagToSet(ops), ok \in BOOLEAN : ExecuteComplete(op, ok)

SpecExec == InitExec /\ [][NextExec]_vars

\* -------------------------------------------------------------- SpecListen
\* the orchestrator with circuit protection and a listener on circuit:open /
\* circuit:close that calls get() and handles what it raises: emit() runs the
\* listener inside the health cycle's callback, between the circuit
\* synchronisation and the health:changed notification that clears the cache

\* some per-name callback is inside emit('circuit:open' / 'circuit:close')
InListener == \E k \in 1..MaxCycles, n \in Names : cycles[k][n].pc = "notifying"

\* #runHealthChecks: one per-name callback after its await, up to the emit of
\* the circuit notification of the synchronisation
CheckSyncNotify(k, name, outcome) ==
    LET res == CheckResult(outcome) IN
    /\ cycles[k][name].pc = "probing"
    /\ name \notin Checks => outcome = "healthy"
    /\ res.status # cycles[k][name].prev
    /\ cbEnabled
    /\ SyncEvents(name, res.status) # <<>>
    /\ status' = [status EXCEPT ![name] = res.status]
    /\ circuits' = [circuits EXCEPT ![name] = SyncCircuit(name, res.status)]
    /\ cycles' = [cycles EXCEPT ![k][name].pc = "notifying"]
    /\ UNCHANGED <<now, activeFailovers, failoverCache, connected, running, ops,
                   lastFo, lastDone, lastSync>>
    /\ OFrame

\* the listener of the circuit notification calls get(n)
ListenerGet(n) == InListener /\ Get(n)

\* #runHealthChecks: the listeners returned; health:changed is emitted, whose
\* first listener clears the cache
CheckNotified(k, name) ==
    /\ cycles[k][name].pc = "notifying"
    /\ failoverCache' = [n \in Names |-> NoResult]
    /\ cycles' = [cycles EXCEPT ![k][name] = IdleCheck]
    /\ UNCHANGED <<now, status, circuits, activeFailovers, connected, running, ops,
                   lastFo, lastDone, lastSync>>
    /\ OFrame

InitListen == OrchInit /\ cbEnabled = TRUE

NextListen ==
    \/ ~InListener /\ Tick
    \/ ~InListener /\ Connect
    \/ ~InListener /\ CycleStart(1)
    \/ ~InListener /\ \E n \in Names, o \in StatusOutcomes :
                         CheckCompleteUnobserved(1, n, o)
    \/ ~InListener /\ \E n \in Names, o \in StatusOutcomes : CheckSyncNotify(1, n, o)
    \/ ~InListener /\ \E n \in Names : Get(n)
    \/ \E n \in Names : ListenerGet(n)
    \/ \E n \in Names : CheckNotified(1, n)

SpecListen == InitListen /\ [][NextListen]_vars

\* ------------------------------------------------ claims on the orchestrator
\* a step in which the awaited call op settles
Settles(op) == BagIn(op, ops) /\ ops' = ops (-) SetToBag({op})

\* C1: whenever the operation of an execute(name, op) settles - with another
\* execute overlapping it, or a health transition between its resolution and
\* its completion - the only breaker that changes is the one of the resolved
\* name whose handle op was given, and it changes by exactly one recorded
\* success or failure.
C1_RecordsOnServedName ==
    [][\A op \in BagToSet(ops) :
         Settles(op) =>
            /\ \A n \in Names \ {op.client} : circuits'[n] = circuits[n]
            /\ circuits'[op.client] \in
                 {OnSuccess(circuits[op.client], halfOpenSuccesses),
                  OnFailure(circuits[op.client], now, threshold, resetTimeout)}
            /\ lastDone'.client = op.client]_vars

\* C1 witness: execute('primary') was served the backup's handle, the primary
\* turned healthy again before op rejected, the rejection opened the backup's
\* breaker and left the primary's untouched, while a second execute - served
\* the primary's handle - is still awaited
C1_Witness ==
    /\ lastDone.st = "rejected"
    /\ lastDone.name = "primary"
    /\ lastDone.client = "backup"
    /\ status["primary"] = "healthy"
    /\ circuits["backup"].state = "open"
    /\ circuits["primary"] = NewCircuit
    /\ \E op \in BagToSet(ops) : op.name = "primary" /\ op.client = "primary"

\* what one get(name) / execute(name, op) does to the failover bookkeeping
AlternationStep(n) ==
    LET r == RaeResolved(n)
        ev == RaeEvents(n)
    IN
    /\ Len(ev) <= 1
    /\ ev = <<>> => activeFailovers' = activeFailovers /\ lastFo' = lastFo
    /\ ev # <<>> =>
         \/ /\ ev[1].type = "failover"
            /\ r.name = FailoverConfig[n]
            /\ n \notin activeFailovers
            /\ activeFailovers' = activeFailovers \cup {n}
            /\ lastFo[n] \in {"none", "recovery"}
            /\ lastFo'[n] = "failover"
         \/ /\ ev[1].type = "recovery"
            /\ r.name = n
            /\ n \in activeFailovers
            /\ activeFailovers' = activeFailovers \ {n}
            /\ lastFo[n] = "failover"
            /\ lastFo'[n] = "recovery"

\* C2: for each primary the failover and recovery notifications alternate,
\* starting with failover: failover is emitted only by a get/execute that
\* resolves to the backup while the primary is outside the active-failover
\* set (and adds it), recovery only by one that resolves to the primary while
\* it is inside (and removes it); a call without a change of resolution emits
\* nothing, and no other step emits either or touches the set.
C2_Alternation ==
    [][/\ \A n \in Names : AlternationStep(n) \/ ~(Get(n) \/ ExecuteStart(n, 1))
       /\ (activeFailovers' # activeFailovers \/ lastFo' # lastFo) =>
             \E n \in Names : Get(n) \/ ExecuteStart(n, 1)]_vars

\* C2 witness: a failover of the primary was announced, then its recovery,
\* and the primary is served by itself again
C2_Witness ==
    /\ lastFo["primary"] = "recovery"
    /\ "primary" \notin activeFailovers
    /\ status["primary"] = "healthy"
    /\ status["backup"] = "healthy"

\* the state the getter of the breaker of name n reports now
EffectiveState(n) == TryTransitionToHalfOpen(circuits[n], now).state

CallbackSettles(k, n) == cycles[k][n].pc = "probing" /\ cycles'[k][n].pc = "idle"

C10_OneCycleInFlight ==
    Cardinality({k \in 1..MaxCycles : CycleInFlight(k)}) <= 1

\* -------------------------------------------------- claims on SpecListen
\* C11: wherever a get/execute can run after a health status has changed -
\* a call made from a listener of the same cycle included - every entry of
\* the resolution cache equals what resolve returns for the current statuses.
C11_CacheFresh ==
    \A n \in Names :
        failoverCache[n] # NoResult =>
            failoverCache[n] = Resolve(FailoverConfig, n, status)

\* --------------------------------------------------- claims on SpecRoute
\* C12: a get(name) or execute(name, op) that raises the circuit-open error
\* changes nothing: health statuses, the active-failover set, the resolution
\* cache and every breaker are as before the call, and neither failover nor
\* recovery was emitted.
C12_RaiseChangesNothing ==
    [][\A n \in Names :
         RaeBlocked(n) =>
            \/ ~(Get(n) \/ ExecuteStart(n, 1))
            \/ /\ UNCHANGED <<status, activeFailovers, failoverCache, circuits, lastFo>>
               /\ RaeEvents(n) = <<>>]_vars

\* ---------------------------------------------- claims on SpecCycle
\* the notification a callback that settles with this outcome leaves in the history
ExpectedSync(k, n, o) ==
    IF CheckResult(o).status # cycles[k][n].prev /\ SyncEvents(n, CheckResult(o).status) # <<>>
    THEN SyncEvents(n, CheckResult(o).status)[1]
    ELSE NoEvent

\* C13: within a cycle the check of one resource ends only by its own probe
\* settling - healthy, degraded, false, raised or timed out - and that step
\* applies its status change and emits its notifications while it leaves the
\* checks and statuses of all other resources as they are; every check that
\* is in flight settles, so the cycle completes, whatever the others' probes do.
C13_FaultIsolation ==
    /\ [][\A k \in 1..MaxCycles, n \in Names :
            CallbackSettles(k, n) =>
               /\ \E o \in ProbeOutcomes :
                     /\ status'[n] = IF CheckResult(o).status # cycles[k][n].prev
                                     THEN CheckResult(o).status ELSE status[n]
                     /\ lastSync' = ExpectedSync(k, n, o)
               /\ \A m \in Names \ {n} :
                     cycles'[k][m] = cycles[k][m] /\ status'[m] = status[m]]_vars
    /\ \A k \in 1..MaxCycles, n \in Names :
          (cycles[k][n].pc = "probing") ~> (cycles[k][n].pc = "idle")

\* the primary's probe has failed in a cycle in which the backup's check is
\* still in flight
C13_Witness ==
    /\ cycles[1]["primary"].pc = "idle"
    /\ cycles[1]["backup"].pc = "probing"
    /\ status["primary"] = "unhealthy"
    /\ lastSync = Ev("circuit:open", "primary", "health-check-failed", "-")

\* ---------------------------------------------- health monitor: check()
\* what the probe of one attempt does: the value it resolves with, the error
\* it raises, or nothing before the timeout timer aborts the attempt
AttemptOutcomes == {"true", "healthy", "degraded", "false", "other", "throw", "timeout"}

\* faulty variant: any value but false passes for healthy
AttemptClassTruthy(o) ==
    IF o = "degraded" THEN "degraded"
    ELSE IF o \in {"true", "healthy", "other"} THEN "healthy"
    ELSE "failed"

\* check(): what one attempt amounts to
AttemptClass(o) ==
    IF o = "degraded" THEN "degraded"
    ELSE IF o \in {"true", "healthy"} THEN "healthy"
    ELSE "failed"

\* faulty variant: the first attempt is counted among the retries
MaxAttemptsNoExtra(retries) == IF retries = 0 THEN 1 ELSE retries

\* check(): maxAttempts
MaxAttempts(retries) == retries + 1

\* check(): attempts < maxAttempts, the loop condition and the guard of the delay
MoreAttempts(attempts, retries) == attempts < MaxAttempts(retries)

XFrame == UNCHANGED <<now, cfgVars, cbVars, rVars, oVars, sh, zVars>>

\* check(name, client) up to the first await: without a probe the answer is
\* healthy at once, otherwise the first attempt is started
CheckCall ==
    /\ hc.pc = "idle"
    /\ hc' = IF ~hc.hasProbe
             THEN [hc EXCEPT !.pc = "done", !.attempts = 0, !.lastError = NullError,
                             !.delays = 0, !.outs = <<>>,
                             !.result = [status |-> "healthy", error |-> NullError]]
             ELSE [hc EXCEPT !.pc = "attempt", !.attempts = 1, !.lastError = NullError,
                             !.delays = 0, !.outs = <<>>, !.result = NoCheckResult]
    /\ XFrame

\* the race of one attempt settles: return on healthy / degraded, otherwise
\* keep the error and either wait for the retry delay or give up
AttemptSettles(o) ==
    LET cls == AttemptClass(o)
        err == IF o \in {"throw", "timeout"} THEN Err(o, hc.attempts) ELSE hc.lastError
    IN
    /\ hc.pc = "attempt"
    /\ hc' = IF cls # "failed"
             THEN [hc EXCEPT !.pc = "done", !.outs = Append(@, o),
                             !.result = [status |-> cls, error |-> NullError]]
             ELSE IF MoreAttempts(hc.attempts, hc.retries)
             THEN [hc EXCEPT !.pc = "delay", !.outs = Append(@, o), !.lastError = err,
                             !.delays = @ + 1]
             ELSE [hc EXCEPT !.pc = "done", !.outs = Append(@, o), !.lastError = err,
                             !.result = [status |-> "unhealthy", error |-> err]]
    /\ XFrame

\* the retry delay elapses: the next attempt is started
DelayElapses ==
    /\ hc.pc = "delay"
    /\ hc' = IF MoreAttempts(hc.attempts, hc.retries)
             THEN [hc EXCEPT !.pc = "attempt", !.attempts = @ + 1]
             ELSE [hc EXCEPT !.pc = "done",
                             !.result = [status |-> "unhealthy", error |-> hc.lastError]]
    /\ XFrame

\* the caller has the result; the monitor is ready for the next check()
CheckReturns ==
    /\ hc.pc = "done"
    /\ hc' = [NoCheck EXCEPT !.retries = hc.retries, !.hasProbe = hc.hasProbe]
    /\ XFrame

\* --------------------------------------------------------------- SpecCheck
\* one HealthMonitor with any retry configuration, with or without a probe
\* registered for the name, answering check() calls one after the other
InitCheck ==
    /\ CBIdle
    /\ rStatus = [n \in RNames |-> "healthy"]
    /\ rName = "-"
    /\ rResult = NoResult
    /\ OFields
    /\ cbEnabled = TRUE
    /\ ZIdle
    /\ \E r \in 0..MaxRetries, p \in BOOLEAN :
          hc = [NoCheck EXCEPT !.retries = r, !.hasProbe = p]

NextCheck ==
    \/ CheckCall
    \/ \E o \in AttemptOutcomes : AttemptSettles(o)
    \/ DelayElapses
    \/ CheckReturns

SpecCheck == InitCheck /\ [][NextCheck]_vars

\* --------------------------------------------------- claims on SpecCheck
\* the error of the last attempt of outs that raised or timed out, null if none
RECURSIVE LastErrorOf(_)
LastErrorOf(outs) ==
    IF outs = <<>> THEN NullError
    ELSE IF outs[Len(outs)] \in {"throw", "timeout"}
    THEN Err(outs[Len(outs)], Len(outs))
    ELSE LastErrorOf(SubSeq(outs, 1, Len(outs) - 1))

FailedOutcomes == {"false", "other", "throw", "timeout"}

\* C14: check() makes at most retries+1 attempts, returns healthy / degraded at
\* the first attempt that yields it (every earlier attempt having failed),
\* returns unhealthy only after retries+1 failed attempts and then carries
\* the last error observed; one delay lies between two consecutive attempts
\* and none follows the last attempt.
C14_RetryLoop ==
    hc.hasProbe =>
        /\ hc.attempts <= hc.retries + 1
        /\ Len(hc.outs) = (IF hc.pc = "attempt" THEN hc.attempts - 1 ELSE hc.attempts)
        /\ \A i \in 1..(Len(hc.outs) - 1) : hc.outs[i] \in FailedOutcomes
        /\ hc.delays = (IF hc.pc = "delay" THEN hc.attempts
                        ELSE IF hc.attempts = 0 THEN 0 ELSE hc.attempts - 1)
        /\ hc.pc = "delay" => hc.attempts < hc.retries + 1
        /\ hc.pc = "done" =>
              IF hc.result.status = "unhealthy"
              THEN /\ hc.attempts = hc.retries + 1
                   /\ \A i \in 1..Len(hc.outs) : hc.outs[i] \in FailedOutcomes
                   /\ hc.result.error = LastErrorOf(hc.outs)
              ELSE /\ hc.result.status \in {"healthy", "degraded"}
                   /\ hc.outs[Len(hc.outs)] \notin FailedOutcomes

\* unhealthy after three attempts, the second of which was the last to raise
C14_Witness ==
    /\ hc.pc = "done"
    /\ hc.retries = 2
    /\ hc.outs = <<"timeout", "throw", "false">>
    /\ hc.delays = 2
    /\ hc.result = [status |-> "unhealthy", error |-> Err("throw", 2)]

\* C15: an attempt that resolves with true or 'healthy' gives healthy, with
\* 'degraded' gives degraded; false, any other value, a raised error and a
\* timeout are failed attempts, which never end the check with a status other
\* than unhealthy; without a registered probe the answer is healthy and no
\* attempt is made.
C15_AttemptClassified ==
    /\ hc.pc = "done" =>
          IF ~hc.hasProbe
          THEN hc.result.status = "healthy" /\ hc.attempts = 0 /\ hc.outs = <<>>
          ELSE LET o == hc.outs[Len(hc.outs)] IN
               /\ o \in {"true", "healthy"} <=> hc.result.status = "healthy"
               /\ o = "degraded" <=> hc.result.status = "degraded"
               /\ o \in FailedOutcomes <=> hc.result.status = "unhealthy"
    /\ hc.pc = "delay" => hc.outs[Len(hc.outs)] \in FailedOutcomes

\* a check that ended unhealthy on a probe that resolved with another value
C15_Witness ==
    /\ hc.pc = "done"
    /\ hc.hasProbe
    /\ hc.outs = <<"other">>
    /\ hc.result.status = "unhealthy"

\* --------------------------------------------------------------- SpecRaise
\* the orchestrator with or without circuit protection: execute('primary', fn)
\* one call at a time, fn resolving or raising, against the health cycle
InitRaise ==
    /\ OrchInit
    /\ cbEnabled \in BOOLEAN

NextRaise ==
    \/ Tick
    \/ Connect
    \/ CycleStart(1)
    \/ \E o \in StatusOutcomes : CheckCompleteUnobserved(1, "primary", o)
    \/ CheckCompleteUnobserved(1, "backup", "healthy")
    \/ ExecuteStart("primary", 1)
    \/ \E op \in BagToSet(ops), ok \in BOOLEAN : ExecuteComplete(op, ok)

SpecRaise == InitRaise /\ [][NextRaise]_vars

\* --------------------------------------------------- claims on SpecRaise
\* C16: when the operation given to execute(name, op) raises, the caller gets
\* that error; with circuit protection the breaker of the resolved resource -
\* the one whose handle op was given - counts one more failure (and opens if
\* that reaches the threshold or it was half-open) while no other breaker
\* changes; without circuit protection no breaker changes; in both cases
\* statuses, active failovers and the cache stay as they are.
C16_RaiseRecordedOnce ==
    [][\A op \in BagToSet(ops) :
         ExecuteComplete(op, FALSE) =>
            /\ lastDone'.st = "rejected"
            /\ UNCHANGED <<status, activeFailovers, failoverCache>>
            /\ IF cbEnabled
               THEN /\ op.circuit = op.client
                    /\ circuits'[op.client].failures = circuits[op.client].failures + 1
                    /\ circuits'[op.client].state =
                          IF \/ circuits[op.client].state = "half-open"
                             \/ circuits[op.client].failures + 1 >= threshold
                          THEN "open" ELSE circuits[op.client].state
                    /\ \A n \in Names \ {op.client} : circuits'[n] = circuits[n]
               ELSE circuits' = circuits]_vars

\* without circuit protection: the operation served by the backup raised, the
\* caller got the error and every breaker field is as constructed
C16_Witness ==
    /\ ~cbEnabled
    /\ lastDone.st = "rejected"
    /\ lastDone.client = "backup"
    /\ lastDone.circuit = "-"
    /\ circuits = [n \in Names |-> NewCircuit]

\* ------------------------------------------- orchestrator: signal handlers
\* faulty variant: the handler does not look at its latch
LatchedNever(r) == FALSE

\* shutdownOnSignal(): if (shuttingDown) return
Latched(r) == r.shuttingDown

SFrame ==
    UNCHANGED <<now, cfgVars, cbVars, rVars, hc, zVars, cbEnabled, status, circuits,
                activeFailovers, failoverCache, cycles, ops, lastFo, lastDone, lastSync>>

\* shutdownOnSignal(options): the handlers of the previous registration are
\* removed, a new handler with its own latch is installed for the signals and
\* its cleanup function is stored and returned
Register(exitProcess) ==
    LET id == sh.n + 1 IN
    /\ ~sh.exited
    /\ sh.n < MaxRegs
    /\ sh' = [SignalCleanupRun(sh) EXCEPT
                 !.n = id,
                 !.regs[id] = [NoReg EXCEPT !.installed = TRUE,
                                            !.exitProcess = exitProcess],
                 !.cleanup = id,
                 !.last = "register"]
    /\ UNCHANGED <<connected, running>>
    /\ SFrame

\* the cleanup function shutdownOnSignal() returned for registration id is
\* called by its holder: process.off for each of its signals
CleanupCall(id) ==
    /\ ~sh.exited
    /\ id \in 1..sh.n
    /\ sh' = [sh EXCEPT !.regs[id].installed = FALSE, !.last = "cleanup"]
    /\ UNCHANGED <<connected, running>>
    /\ SFrame

\* disconnect() called by the application, from the call to its return
DisconnectCall ==
    /\ ~sh.exited
    /\ IF connected
       THEN /\ running' = FALSE
            /\ connected' = FALSE
            /\ sh' = [SignalCleanupRun(sh) EXCEPT !.last = "disconnect"]
       ELSE /\ sh' = [sh EXCEPT !.last = "disconnect"]
            /\ UNCHANGED <<connected, running>>
    /\ SFrame

\* the process delivers one of the signals of registration id to its handler:
\* the latch, the shutdown notification and disconnect() up to the await
Signal(id) ==
    LET r == sh.regs[id]
        seen == [sh EXCEPT !.regs[id].signals = Min(@ + 1, 2), !.last = "signal"]
        begun == [seen EXCEPT !.regs[id].shuttingDown = TRUE,
                              !.regs[id].shutdowns = Min(@ + 1, 2),
                              !.regs[id].awaiting = Min(@ + 1, 2)]
    IN
    /\ ~sh.exited
    /\ r.installed
    /\ IF Latched(r)
       THEN /\ sh' = seen
            /\ UNCHANGED <<connected, running>>
       ELSE IF connected
       THEN /\ running' = FALSE
            /\ connected' = FALSE
            /\ sh' = [SignalCleanupRun(begun) EXCEPT !.regs[id].batches = Min(@ + 1, 2)]
       ELSE /\ sh' = begun
            /\ UNCHANGED <<connected, running>>
    /\ SFrame

\* the handler of registration id after await this.disconnect(): process.exit
HandlerResume(id) ==
    LET r == sh.regs[id] IN
    /\ ~sh.exited
    /\ r.awaiting > 0
    /\ sh' = IF r.exitProcess
             THEN [sh EXCEPT !.regs[id].awaiting = @ - 1,
                             !.regs[id].exits = Min(@ + 1, 2),
                             !.exited = TRUE, !.last = "exit"]
             ELSE [sh EXCEPT !.regs[id].awaiting = @ - 1, !.last = "resume"]
    /\ UNCHANGED <<connected, running>>
    /\ SFrame

\* ------------------------------------------------------------ SpecShutdown
\* the orchestrator and its signal handlers: connect, disconnect,
\* shutdownOnSignal, the cleanup functions it returned, signals
InitShutdown == OrchInit /\ cbEnabled = TRUE

NextShutdown ==
    \/ ~sh.exited /\ Connect
    \/ DisconnectCall
    \/ \E e \in BOOLEAN : Register(e)
    \/ \E id \in 1..MaxRegs : CleanupCall(id)
    \/ \E id \in 1..MaxRegs : Signal(id)
    \/ \E id \in 1..MaxRegs : HandlerResume(id)

SpecShutdown == InitShutdown /\ [][NextShutdown]_vars

\* ------------------------------------------------ claims on SpecShutdown
\* C17: for each registration, however many signals reach its handler - also
\* while the first is still awaiting disconnect() - the handler passes its
\* latch once: one shutdown notification, one disconnect() with at most one
\* round of disconnected notifications, and at most one process exit, which
\* has happened once the handler is through and exiting was asked for.
C17_LatchedOnce ==
    \A id \in 1..MaxRegs :
        LET r == sh.regs[id] IN
        /\ r.shutdowns <= 1 /\ r.awaiting <= 1 /\ r.batches <= 1 /\ r.exits <= 1
        /\ r.signals > 0 => r.shuttingDown /\ r.shutdowns = 1
        /\ (r.signals > 0 /\ r.awaiting = 0 /\ r.exitProcess) => r.exits = 1
        /\ r.exits + r.awaiting <= r.shutdowns

\* a second signal reached the handler while the first was awaiting disconnect()
C17_Witness ==
    \E id \in 1..MaxRegs :
        /\ sh.regs[id].signals = 2
        /\ sh.regs[id].awaiting = 1
        /\ sh.regs[id].shutdowns = 1
        /\ sh.last = "signal"

\* C18: at most one registration has its handlers installed at any time, and
\* once disconnect() has returned no handler of the instance is installed.
C18_HandlersRemoved ==
    /\ Cardinality({id \in 1..MaxRegs : sh.regs[id].installed}) <= 1
    /\ sh.last = "disconnect" => \A id \in 1..MaxRegs : ~sh.regs[id].installed

\* -------------------------------------------- further claims on SpecResolve
\* C19: a name whose status is degraded resolves to itself with isFailover
\* false, whatever backup is configured and whatever the backup's status.
C19_DegradedStays ==
    (rName # "-" /\ rStatus[rName] = "degraded") =>
        rResult = [name |-> rName, isFailover |-> FALSE]

\* C20: with the mappings a -> b and b -> c, a request for a while a and b
\* are unhealthy and c is healthy resolves to c.
C20_ChainedFailover ==
    (/\ rName = "a"
     /\ rStatus["a"] = "unhealthy"
     /\ rStatus["b"] = "unhealthy"
     /\ rStatus["c"] = "healthy") =>
        rResult.name = "c"

\* ----------------------------------------------- further claims on SpecCB
\* C21: failure() returns true exactly when the call moved the breaker to
\* open - from closed on reaching the threshold, or from half-open; recorded
\* below the threshold or on a breaker that is already open it returns false.
C21_FailureReturnsDidOpen ==
    [][CBFailure =>
          (cbLast'.res = "true" <=> (cb.state # "open" /\ cb'.state = "open"))]_vars

\* ------------------------------------------- further claims on SpecHealth
\* C22: recordSuccess(name) emits circuit:close exactly when that success
\* moved the breaker of name to closed; nothing is emitted when it was closed
\* already, when it is still half-open afterwards, or when it is open.
C22_CloseEmittedOnClose ==
    [][RecordSuccess("primary") =>
          (RecordSuccessEvents("primary") # <<>> <=>
              (circuits["primary"].state # "closed" /\ circuits'["primary"].state = "closed"))]_vars

\* --------------------------------------------------------------- SpecTrial
\* one CircuitBreaker used through execute() only, calls overlapping, with
\* the number of calls admitted since half-open was entered kept as history
TrialsAfter ==
    IF cb'.state # "half-open" THEN 0
    ELSE (IF cb.state = "half-open" THEN cbTrials ELSE 0)
         + (IF cbInflight' > cbInflight THEN 1 ELSE 0)

NextTrial ==
    \/ CBTick /\ cbTrials' = TrialsAfter
    \/ CBExecute /\ cbTrials' = TrialsAfter
    \/ CBCompleteSuccess /\ cbTrials' = TrialsAfter
    \/ CBCompleteFailure /\ cbTrials' = TrialsAfter

SpecTrial == InitCB /\ [][NextTrial]_vars

\* --------------------------------------------------- claims on SpecTrial
\* C23: the execute() calls admitted between entering half-open and the next
\* close or reopen never number more than halfOpenSuccesses, overlapping
\* calls included.
C23_TrialsBounded == cbTrials <= halfOpenSuccesses

\* ------------------------------------------- further claims on SpecHealth
\* C24: the per-name callback of a health cycle emits an error notification
\* with context 'health-check' exactly when the check ended unhealthy - the
\* probe raised, returned a falsy value or timed out - and none when it ended
\* healthy or degraded.
C24_UnhealthyReported ==
    [][\A k \in 1..MaxCycles, o \in ProbeOutcomes :
          CheckComplete(k, "primary", o) =>
             ((\E i \in 1..Len(CheckEvents(k, "primary", o)) :
                   /\ CheckEvents(k, "primary", o)[i].type = "error"
                   /\ CheckEvents(k, "primary", o)[i].x = "health-check")
              <=> CheckResult(o).status = "unhealthy")]_vars

\* ------------------------------------------------- parseDuration (pure)
\* the characters duration strings are made of
DigitChars == {"0", "1", "2", "3", "5"}
UnitChars == {"m", "s", "h"}
DurationChars == DigitChars \cup UnitChars

\* the unit alternatives of the pattern /^(\d+)(ms|s|m|h)$/
Units == {<<"m", "s">>, <<"s">>, <<"m">>, <<"h">>}

\* what parseDuration is called with: a string, or a value that is not one
DurationInputs ==
    {[isString |-> TRUE, chars |-> c] :
        c \in UNION {[1..n -> DurationChars] : n \in 0..MaxLen}}
    \cup {[isString |-> FALSE, chars |-> <<>>]}

DigitValue(ch) ==
    IF ch = "0" THEN 0 ELSE IF ch = "1" THEN 1 ELSE IF ch = "2" THEN 2
    ELSE IF ch = "3" THEN 3 ELSE 5

\* length of the run of digits the string starts with: what (\d+) matches
RECURSIVE DigitsPrefix(_)
DigitsPrefix(d) ==
    IF d = <<>> \/ d[1] \notin DigitChars THEN 0
    ELSE 1 + DigitsPrefix(Tail(d))

\* parseInt(digits, 10)
RECURSIVE ParseInt(_)
ParseInt(digits) ==
    IF digits = <<>> THEN 0
    ELSE 10 * ParseInt(SubSeq(digits, 1, Len(digits) - 1)) + DigitValue(digits[Len(digits)])

\* a number of milliseconds, kept as whole seconds and the milliseconds left
\* over so that every product stays within the integers of the model
Millis(value, unit) ==
    IF unit = <<"m", "s">> THEN [sec |-> value \div 1000, ms |-> value % 1000]
    ELSE IF unit = <<"s">> THEN [sec |-> value, ms |-> 0]
    ELSE IF unit = <<"m">> THEN [sec |-> value * 60, ms |-> 0]
    ELSE [sec |-> value * 60 * 60, ms |-> 0]

Raised(error) == [ok |-> FALSE, ms |-> 0, error |-> error]
Returned(millis) == [ok |-> TRUE, ms |-> millis, error |-> "-"]

\* parseDuration(duration)
ParseDuration(input) ==
    LET d == input.chars
        k == DigitsPrefix(d)
        unit == SubSeq(d, k + 1, Len(d))
        value == ParseInt(SubSeq(d, 1, k))
    IN
    IF ~input.isString THEN Raised("Duration must be a string")
    ELSE IF k = 0 \/ unit \notin Units THEN Raised("Invalid duration format")
    ELSE IF value <= 0 THEN Raised("Duration must be positive")
    ELSE IF unit = <<"h">> /\ value > 24 THEN Raised("Duration too large")
    ELSE Returned(Millis(value, unit))

\* --------------------------------------------------------------- SpecParse
\* parseDuration applied to every input of at most MaxLen characters
InitParse ==
    /\ CBIdle
    /\ rStatus = [n \in RNames |-> "healthy"]
    /\ rName = "-"
    /\ rResult = NoResult
    /\ OFields
    /\ cbEnabled = TRUE
    /\ hc = NoCheck
    /\ pd \in {[NoParse EXCEPT !.input = i] : i \in DurationInputs}
    /\ ctor = NoCtor /\ mon = NoMon /\ conn = NoConn /\ fr = NoFr

ParseCall ==
    /\ pd.result = NoParse.result
    /\ pd' = [pd EXCEPT !.result = ParseDuration(pd.input)]
    /\ UNCHANGED <<now, cfgVars, cbVars, rVars, oVars, hc, sh, ctor, mon, conn, fr>>

NextParse == ParseCall

SpecParse == InitParse /\ [][NextParse]_vars

\* --------------------------------------------------- claims on SpecParse
\* 24 hours, in seconds
DayInSeconds == 24 * 60 * 60

\* C25: parseDuration returns for exactly the strings <digits><ms|s|m|h> whose
\* duration is more than zero and at most 24 hours, whatever the unit - the
\* integer times the unit, in milliseconds - and raises for every other input.
C25_ParseDuration ==
    pd.result # NoParse.result =>
        LET d == pd.input.chars
            k == DigitsPrefix(d)
            unit == SubSeq(d, k + 1, Len(d))
            dur == Millis(ParseInt(SubSeq(d, 1, k)), unit)
            accepted == /\ pd.input.isString
                        /\ k > 0
                        /\ unit \in Units
                        /\ dur.sec > 0 \/ dur.ms > 0
                        /\ dur.sec < DayInSeconds \/ (dur.sec = DayInSeconds /\ dur.ms = 0)
        IN
        /\ pd.result.ok <=> accepted
        /\ pd.result.ok => pd.result.ms = dur

\* --------------------------------------- orchestrator: the constructor
\* names a config may use: keys of config.connections, and a property every
\* object literal inherits from Object.prototype
ConnNames == {"primary", "backup"}
ProtoNames == {"constructor"}
\* a client object, a falsy value that is not null (0, '', false), null
ClientKinds == {"object", "zero", "null"}

ConfigInputs ==
    {[connections |-> c, failover |-> f] :
        c \in UNION {[D -> ClientKinds] : D \in SUBSET ConnNames},
        f \in UNION {[D -> ConnNames \cup ProtoNames] : D \in SUBSET ConnNames}}

\* config.connections[name]: an own property, else what the prototype has
PropertyOf(connections, name) ==
    IF name \in DOMAIN connections THEN connections[name]
    ELSE IF name \in ProtoNames THEN "function"
    ELSE "undefined"

Truthy(v) == v \in {"object", "function"}

\* faulty variant: the failover targets are not validated
FailoverTargetMissingNever(config) == FALSE

\* constructor: some backup of config.failover fails !config.connections[backup]
FailoverTargetMissing(config) ==
    \E p \in DOMAIN config.failover :
        ~Truthy(PropertyOf(config.connections, config.failover[p]))

\* new Orchestrator(config), for a config object with a connections object
ConstructOrchestrator(config) ==
    IF DOMAIN config.connections = {}
    THEN [outcome |-> "raised", error |-> "At least one connection must be provided",
          instance |-> <<>>]
    ELSE IF FailoverTargetMissing(config)
    THEN [outcome |-> "raised", error |-> "Failover config error", instance |-> <<>>]
    ELSE IF \E n \in DOMAIN config.connections : config.connections[n] = "null"
    THEN [outcome |-> "raised", error |-> "Client cannot be null or undefined",
          instance |-> <<>>]
    ELSE [outcome |-> "constructed", error |-> "-",
          instance |-> [registry |-> DOMAIN config.connections,
                        failoverMap |-> config.failover]]

\* ----------------------------------------------------------- SpecConstruct
\* new Orchestrator(config) applied to every config over two connection names
StandAloneInit ==
    /\ CBIdle
    /\ rStatus = [n \in RNames |-> "healthy"]
    /\ rName = "-"
    /\ rResult = NoResult
    /\ OFields
    /\ cbEnabled = TRUE
    /\ hc = NoCheck

InitConstruct ==
    /\ StandAloneInit
    /\ pd = NoParse /\ mon = NoMon /\ conn = NoConn /\ fr = NoFr
    /\ ctor \in {[NoCtor EXCEPT !.class = "Orchestrator", !.config = c] : c \in ConfigInputs}

Construct ==
    LET r == ConstructOrchestrator(ctor.config) IN
    /\ ctor.outcome = "-"
    /\ ctor' = [ctor EXCEPT !.outcome = r.outcome, !.error = r.error,
                            !.instance = r.instance]
    /\ UNCHANGED <<now, cfgVars, cbVars, rVars, oVars, hc, sh, pd, mon, conn, fr>>

NextConstruct == Construct

SpecConstruct == InitConstruct /\ [][NextConstruct]_vars

\* ----------------------------------------------- claims on SpecConstruct
\* C26: the constructor raises when some backup name of the failover mapping
\* is not among the connections, so in every instance that was constructed
\* each backup name of the mapping is a registered resource.
C26_BackupsRegistered ==
    ctor.outcome # "-" =>
        /\ (\E p \in DOMAIN ctor.config.failover :
               ctor.config.failover[p] \notin DOMAIN ctor.config.connections)
           => ctor.outcome = "raised"
        /\ ctor.outcome = "constructed" =>
              \A p \in DOMAIN ctor.instance.failoverMap :
                  ctor.instance.failoverMap[p] \in ctor.instance.registry

\* --------------------------------------- circuit breaker: the constructor
\* a JavaScript value of a config field: undefined (the field is absent), a
\* number kept as twice its value so that halves exist, NaN, or a string
Absent == [t |-> "undefined", twice |-> 0, chars |-> <<>>]
NaN == [t |-> "nan", twice |-> 0, chars |-> <<>>]
Num(twice) == [t |-> "number", twice |-> twice, chars |-> <<>>]
Str(chars) == [t |-> "string", twice |-> 0, chars |-> chars]

DefaultThreshold == 5
DefaultResetTimeout == 30000
DefaultHalfOpenSuccesses == 2

\* the numbers -1, -1/2, 0, 1/2, 1, 3/2, ... MaxThreshold
NumberInputs == {Num(t) : t \in -2 .. 2 * MaxThreshold}
CountInputs == {Absent, NaN, Str(<<"2">>)} \cup NumberInputs
TimeoutInputs ==
    {Absent, NaN, Str(<<"1", "s">>), Str(<<"0", "s">>), Str(<<"2">>)}
        \cup NumberInputs
BreakerConfigs ==
    [threshold : CountInputs, resetTimeout : TimeoutInputs,
     halfOpenSuccesses : CountInputs]

\* typeof v === 'number': NaN is of type number
IsNumber(v) == v.t \in {"number", "nan"}
\* a < b on values of type number: every comparison with NaN is false
Less(a, b) == a.t = "number" /\ b.t = "number" /\ a.twice < b.twice
\* v ?? d
OrDefault(v, d) == IF v.t = "undefined" THEN d ELSE v
\* Math.floor(v)
Floor(v) == IF v.t = "nan" THEN NaN ELSE Num(2 * (v.twice \div 2))
\* the number of milliseconds parseDuration returned, as a value
MillisValue(m) == Num(2 * (m.sec * 1000 + m.ms))

BreakerRaised(error) == [outcome |-> "raised", error |-> error, instance |-> <<>>]

\* new CircuitBreaker(config)
NewCircuitBreaker(config) ==
    LET count == OrDefault(config.threshold, Num(2 * DefaultThreshold))
        parsed == ParseDuration([isString |-> TRUE, chars |-> config.resetTimeout.chars])
        timeout == OrDefault(config.resetTimeout, Num(2 * DefaultResetTimeout))
        halfOpen == OrDefault(config.halfOpenSuccesses, Num(2 * DefaultHalfOpenSuccesses))
    IN
    IF ~IsNumber(count) \/ Less(count, Num(2))
    THEN BreakerRaised("threshold must be a positive number (>= 1)")
    ELSE IF config.resetTimeout.t = "string" /\ ~parsed.ok
    THEN BreakerRaised(parsed.error)
    ELSE IF config.resetTimeout.t # "string" /\ (~IsNumber(timeout) \/ Less(timeout, Num(0)))
    THEN BreakerRaised("resetTimeout must be a positive number or duration string")
    ELSE IF ~IsNumber(halfOpen) \/ Less(halfOpen, Num(2))
    THEN BreakerRaised("halfOpenSuccesses must be a positive number (>= 1)")
    ELSE [outcome |-> "constructed", error |-> "-",
          instance |->
              [threshold |-> Floor(count),
               resetTimeout |-> IF config.resetTimeout.t = "string"
                                THEN MillisValue(parsed.ms) ELSE timeout,
               halfOpenSuccesses |-> Floor(halfOpen)]]

\* ------------------------------------------------------- SpecBreakerConfig
\* new CircuitBreaker(config) applied to every config of BreakerConfigs
InitBreakerConfig ==
    /\ StandAloneInit
    /\ pd = NoParse /\ mon = NoMon /\ conn = NoConn /\ fr = NoFr
    /\ ctor \in {[NoCtor EXCEPT !.class = "CircuitBreaker", !.config = c] :
                    c \in BreakerConfigs}

ConstructBreaker ==
    LET r == NewCircuitBreaker(ctor.config) IN
    /\ ctor.outcome = "-"
    /\ ctor' = [ctor EXCEPT !.outcome = r.outcome, !.error = r.error,
                            !.instance = r.instance]
    /\ UNCHANGED <<now, cfgVars, cbVars, rVars, oVars, hc, sh, pd, mon, conn, fr>>

NextBreakerConfig == ConstructBreaker

SpecBreakerConfig == InitBreakerConfig /\ [][NextBreakerConfig]_vars

\* ------------------------------------------- claims on SpecBreakerConfig
\* v >= n for a stored value: false of NaN
AtLeast(v, n) == v.t = "number" /\ v.twice >= 2 * n

\* C27: constructing a breaker with threshold < 1, resetTimeout < 0 or
\* halfOpenSuccesses < 1 raises, and every breaker that was constructed has
\* threshold >= 1, resetTimeout >= 0 and halfOpenSuccesses >= 1.
C27_BreakerConfigValid ==
    ctor.outcome # "-" =>
        /\ (\/ Less(ctor.config.threshold, Num(2))
            \/ Less(ctor.config.resetTimeout, Num(0))
            \/ Less(ctor.config.halfOpenSuccesses, Num(2)))
           => ctor.outcome = "raised"
        /\ ctor.outcome = "constructed" =>
              /\ AtLeast(ctor.instance.threshold, 1)
              /\ AtLeast(ctor.instance.resetTimeout, 0)
              /\ AtLeast(ctor.instance.halfOpenSuccesses, 1)

\* ------------------------------------ orchestrator: connect / disconnect
\* #registry.list(): the names in the order of their registration
RegistryList == <<"primary", "backup">>

\* one notification of the given type for every registered name
Round(type) == [i \in 1..Len(RegistryList) |-> Ev(type, RegistryList[i], "-", "-")]

\* faulty variant: connect() has no guard on #connected
ConnectEmitsUnguarded(isConnected) == Round("connected")

\* connect(): what it emits, given #connected at the call
ConnectEmits(isConnected) == IF isConnected THEN <<>> ELSE Round("connected")

\* disconnect(): what it emits, given #connected at the call
DisconnectEmits(isConnected) == IF isConnected THEN Round("disconnected") ELSE <<>>

ConnFrame ==
    UNCHANGED <<now, cfgVars, cbVars, rVars, hc, pd, ctor, mon, fr, cbEnabled, status,
                circuits, activeFailovers, failoverCache, cycles, ops, lastFo, lastDone,
                lastSync>>

\* connect() called by the application, from the call to its return
ConnectCall ==
    /\ conn.calls < MaxCalls
    /\ conn' = [calls |-> conn.calls + 1, last |-> "connect", was |-> connected,
                emitted |-> ConnectEmits(connected)]
    /\ IF connected
       THEN UNCHANGED <<connected, running>>
       ELSE running' = TRUE /\ connected' = TRUE
    /\ UNCHANGED sh
    /\ ConnFrame

\* disconnect() called by the application, from the call to its return, with
\* what it emitted
DisconnectObserved ==
    /\ conn.calls < MaxCalls
    /\ conn' = [calls |-> conn.calls + 1, last |-> "disconnect", was |-> connected,
                emitted |-> DisconnectEmits(connected)]
    /\ IF connected
       THEN /\ running' = FALSE
            /\ connected' = FALSE
            /\ sh' = SignalCleanupRun(sh)
       ELSE UNCHANGED <<connected, running, sh>>
    /\ ConnFrame

\* ------------------------------------------------------------- SpecConnect
\* connect() and disconnect() in any order, with shutdownOnSignal()
\* registrations and the health cycle the timer starts
InitConnect == OrchInit /\ cbEnabled = TRUE

NextConnect ==
    \/ ConnectCall
    \/ DisconnectObserved
    \/ \E e \in BOOLEAN : Register(e)
    \/ \E k \in 1..MaxCycles : CycleStart(k)
    \/ \E k \in 1..MaxCycles, n \in Names : CheckComplete(k, n, "healthy")

SpecConnect == InitConnect /\ [][NextConnect]_vars

\* ------------------------------------------------- claims on SpecConnect
\* how many notifications of the type for the name the sequence holds
Emitted(events, type, name) ==
    Cardinality({i \in 1..Len(events) : events[i].type = type /\ events[i].name = name})

\* C28: over any sequence of connect() / disconnect() calls, a call emits one
\* connected notification per resource exactly when it changes the coordinator
\* from not connected to connected, one disconnected notification per resource
\* exactly when it changes it from connected to not connected; connect() while
\* connected and disconnect() while not connected change nothing; and the
\* health timer is scheduled exactly while the coordinator is connected.
C28_ConnectIdempotent ==
    [][(ConnectCall \/ DisconnectObserved) =>
          /\ \A n \in Names :
                /\ Emitted(conn'.emitted, "connected", n) =
                       IF ~connected /\ connected' THEN 1 ELSE 0
                /\ Emitted(conn'.emitted, "disconnected", n) =
                       IF connected /\ ~connected' THEN 1 ELSE 0
          /\ Len(conn'.emitted) \in {0, Cardinality(Names)}
          /\ connected' = (conn'.last = "connect")
          /\ (running <=> connected) /\ (running' <=> connected')
          /\ (conn'.last = "connect" <=> connected) =>
                 UNCHANGED <<connected, running, sh>>]_vars

\* connect() was called on a connected coordinator and emitted nothing
C28_Witness ==
    /\ conn.last = "connect"
    /\ conn.was
    /\ conn.emitted = <<>>
    /\ connected /\ running
    /\ conn.calls >= 2

\* ------------------------------------------- health monitor: start / stop
\* mon.timers are the interval timers of the runtime that were set and not
\* cleared, each with the time it is due next; mon.intervalId the one
\* #intervalId holds (0 for null); mon.invoked the callbacks invoked so far
TimerIds(m) == {t.id : t \in m.timers}

\* faulty variant: start() has no guard on #running
StartReturnsNever(m) == FALSE

\* start(): if (this.#running) return
StartReturns(m) == m.running

MonFrame == UNCHANGED <<now, cfgVars, cbVars, rVars, oVars, hc, sh, pd, ctor, conn, fr>>

\* start(checkAllFn)
MonitorStart ==
    LET id == mon.created + 1 IN
    /\ mon.calls < MaxCalls
    /\ mon' = IF StartReturns(mon)
              THEN [mon EXCEPT !.calls = @ + 1, !.last = "start"]
              ELSE [mon EXCEPT !.calls = @ + 1, !.last = "start", !.running = TRUE,
                               !.intervalId = id, !.created = id,
                               !.timers = @ \cup {[id |-> id,
                                                    due |-> now + mon.intervalMs]}]
    /\ MonFrame

\* stop()
MonitorStop ==
    /\ mon.calls < MaxCalls
    /\ mon' = IF mon.intervalId # 0
              THEN [mon EXCEPT !.calls = @ + 1, !.last = "stop", !.running = FALSE,
                               !.timers = {t \in @ : t.id # mon.intervalId},
                               !.intervalId = 0]
              ELSE [mon EXCEPT !.calls = @ + 1, !.last = "stop", !.running = FALSE]
    /\ MonFrame

\* the clock advances between two steps
MonitorTick ==
    /\ now < MaxTime
    /\ now' = now + 1
    /\ UNCHANGED <<cfgVars, cbVars, rVars, oVars, hc, sh, zVars>>

\* the interval of timer id elapses: its callback calls checkAllFn
TimerFires(id) ==
    /\ \E t \in mon.timers : t.id = id /\ t.due <= now
    /\ mon' = [mon EXCEPT !.invoked = @ + 1, !.last = "fire",
                          !.timers = {IF t.id = id
                                      THEN [t EXCEPT !.due = @ + mon.intervalMs]
                                      ELSE t : t \in @}]
    /\ MonFrame

\* ------------------------------------------------------------- SpecMonitor
\* start() and stop() in any order on one monitor constructed with an
\* interval of 1..MaxClock, the clock advancing and the timers firing
InitMonitor ==
    /\ StandAloneInit
    /\ pd = NoParse /\ ctor = NoCtor /\ conn = NoConn /\ fr = NoFr
    /\ mon \in {[NoMon EXCEPT !.intervalMs = i] : i \in 1..MaxClock}

NextMonitor ==
    \/ MonitorTick
    \/ MonitorStart
    \/ MonitorStop
    \/ \E id \in 1..MaxCalls : TimerFires(id)

SpecMonitor == InitMonitor /\ [][NextMonitor]_vars

\* ------------------------------------------------- claims on SpecMonitor
\* what start() and stop() manage: the flag, the stored id, the timers
MonitorFields(m) == <<m.running, m.intervalId, m.timers, m.created, m.invoked>>

\* C29: after any sequence of start() / stop() calls at most one timer exists
\* and isRunning is true exactly when one does; start() while running and
\* stop() while not running change nothing; and a cycle callback is invoked
\* only while the monitor is running, by the timer the monitor holds.
C29_OneTimer ==
    [][/\ Cardinality(mon'.timers) <= 1
       /\ mon'.running <=> mon'.timers # {}
       /\ TimerIds(mon') = IF mon'.intervalId = 0 THEN {} ELSE {mon'.intervalId}
       /\ (MonitorStart /\ mon.running) => MonitorFields(mon') = MonitorFields(mon)
       /\ (MonitorStop /\ ~mon.running) => MonitorFields(mon') = MonitorFields(mon)
       /\ \A id \in 1..MaxCalls : TimerFires(id) => mon.running /\ id = mon.intervalId
      ]_vars

\* start() was called on a running monitor whose timer had fired, and was
\* followed by stop(): no timer is left
C29_Witness ==
    /\ mon.calls = 3
    /\ mon.created = 1
    /\ mon.last = "stop"
    /\ mon.invoked > 0
    /\ ~mon.running /\ mon.timers = {}

\* ---------------------------------------- failover router: active failovers
\* a JavaScript Set of names, kept as the sequence of its members in the order
\* of their insertion, which is the order getActiveFailovers() lists them in
Members(set) == {set[i] : i \in 1..Len(set)}

\* faulty variant: add() appends whether or not the name is a member
SetAddAlways(set, name) == Append(set, name)

\* Set.prototype.add
SetAdd(set, name) == IF name \in Members(set) THEN set ELSE Append(set, name)

\* Set.prototype.delete
SetDelete(set, name) == SelectSeq(set, LAMBDA m : m # name)

FrFrame == UNCHANGED <<now, cfgVars, cbVars, rVars, oVars, hc, sh, pd, ctor, mon, conn>>

\* activateFailover(name)
ActivateFailover(name) ==
    /\ fr.calls < MaxSetCalls
    /\ fr' = [fr EXCEPT !.active = SetAdd(fr.active, name), !.calls = @ + 1,
                        !.last[name] = "activate"]
    /\ FrFrame

\* deactivateFailover(name)
DeactivateFailover(name) ==
    /\ fr.calls < MaxSetCalls
    /\ fr' = [fr EXCEPT !.active = SetDelete(fr.active, name), !.calls = @ + 1,
                        !.last[name] = "deactivate"]
    /\ FrFrame

\* --------------------------------------------------------- SpecFailoverSet
\* activateFailover and deactivateFailover called in any order on one router
InitFailoverSet ==
    /\ StandAloneInit
    /\ pd = NoParse /\ ctor = NoCtor /\ mon = NoMon /\ conn = NoConn
    /\ fr = NoFr

NextFailoverSet ==
    \/ \E n \in RNames : ActivateFailover(n)
    \/ \E n \in RNames : DeactivateFailover(n)

SpecFailoverSet == InitFailoverSet /\ [][NextFailoverSet]_vars

\* --------------------------------------------- claims on SpecFailoverSet
\* how many times getActiveFailovers() lists the name
Listed(set, name) == Cardinality({i \in 1..Len(set) : set[i] = name})

\* C30: activateFailover(name) for an active name and deactivateFailover(name)
\* for a name that is not active leave the set as it was; after any sequence
\* of calls the set holds each name at most once, and a name is a member
\* exactly when the last call for it was an activation.
C30_ActiveSetIdempotent ==
    [][\A n \in RNames :
          /\ (ActivateFailover(n) /\ n \in Members(fr.active))
                 => fr'.active = fr.active
          /\ (DeactivateFailover(n) /\ n \notin Members(fr.active))
                 => fr'.active = fr.active
          /\ Listed(fr'.active, n) <= 1
          /\ n \in Members(fr'.active) <=> fr'.last[n] = "activate"]_vars

\* a name was activated twice and another deactivated without having been
\* active: the set lists the first name once
C30_Witness ==
    /\ fr.calls = 3
    /\ fr.active = <<"a">>
    /\ fr.last["a"] = "activate"
    /\ fr.last["b"] = "deactivate"

\* ------------------------------------- further claims on the health cycle
\* the health:changed notifications among the events of one callback
HealthChanged(events) == SelectSeq(events, LAMBDA e : e.type = "health:changed")

\* C31: every health:changed notification for a resource has previous #
\* current, previous equal to the status stored right before the update and
\* current equal to the status stored after it, and none is emitted when the
\* check result equals the stored status, also when checks of the resource
\* in overlapping cycles interleave.
C31_ChangeNotified ==
    [][\A k \in 1..MaxCycles, o \in ProbeOutcomes :
          CheckComplete(k, "primary", o) =>
             LET hs == HealthChanged(CheckEvents(k, "primary", o)) IN
             /\ \A i \in 1..Len(hs) :
                   /\ hs[i].x # hs[i].y
                   /\ hs[i].x = status["primary"]
                   /\ hs[i].y = status'["primary"]
             /\ CheckResult(o).status = status["primary"] => hs = <<>>]_vars

\* C32: in every reachable state a resource whose status is unhealthy and
\* that has a built-in breaker does not have its circuit closed.
C32_UnhealthyNotClosed ==
    \A n \in Names :
        (cbEnabled /\ status[n] = "unhealthy") => circuits[n].state # "closed"

\* -------------------------------------------- failover router: resolve
\* faulty variant: resolve() records the failover it decided on
ResolveWritesRecording(router, result) ==
    IF result.isFailover
    THEN [router EXCEPT !.map = [n \in DOMAIN @ \ {result.name} |-> @[n]],
                        !.active = SetAdd(@, result.name)]
    ELSE router

\* resolve(): the router's fields after the call; #failoverMap is read with
\* get(), #activeFailovers is not touched
ResolveWrites(router, result) == router

\* router.resolve(name, getStatus) on a router whose failovers are being
\* activated and deactivated
RouterResolve(name) ==
    LET result == Resolve(fr.map, name, rStatus) IN
    /\ rName' = name
    /\ rResult' = result
    /\ fr' = ResolveWrites(fr, result)
    /\ UNCHANGED <<now, cfgVars, cbVars, rStatus, oVars, hc, sh, pd, ctor, mon, conn>>

\* -------------------------------------------------------------- SpecRouter
\* one router: resolve against a drawn status lookup, with failovers being
\* activated and deactivated in between
InitRouter ==
    /\ CBIdle
    /\ rStatus \in [RNames -> Statuses \cup {Undefined}]
    /\ rName = "-"
    /\ rResult = NoResult
    /\ OIdle

NextRouter ==
    \/ \E n \in RNames : RouterResolve(n)
    \/ \E n \in RNames : ActivateFailover(n)
    \/ \E n \in RNames : DeactivateFailover(n)

SpecRouter == InitRouter /\ [][NextRouter]_vars

NoProbeOutcomesAny == StatusOutcomes

\* HealthMonitor.check: if (!checkFn) return { status: 'healthy' }
NoProbeOutcomes == {"healthy"}

InitFrame == OrchInit /\ cbEnabled = TRUE

NextFrame ==
    \/ Connect
    \/ CycleStart(1)
    \/ \E o \in StatusOutcomes : CheckCompleteUnobserved(1, "primary", o)
    \/ \E o \in NoProbeOutcomes : CheckCompleteUnobserved(1, "backup", o)
    \/ \E n \in Names : Get(n)
    \/ \E n \in Names : ExecuteStart(n, 1)
    \/ \E op \in BagToSet(ops), ok \in BOOLEAN : ExecuteCompleteUnobserved(op, ok)
    \/ \E n \in Names : RecordSuccess(n)
    \/ \E n \in Names : RecordFailure(n)
    \/ GetStats

SpecFrame == InitFrame /\ [][NextFrame]_vars

\* --------------------------------------------------- claims on SpecFrame
\* a step of get, execute (its call or its completion), recordSuccess,
\* recordFailure or getStats
PublicCall ==
    \/ \E n \in Names : Get(n) \/ ExecuteStart(n, 1) \/ RecordSuccess(n) \/ RecordFailure(n)
    \/ \E op \in BagToSet(ops), ok \in BOOLEAN : ExecuteCompleteUnobserved(op, ok)
    \/ GetStats

\* C34: every resource starts healthy; get, execute, recordSuccess,
\* recordFailure and getStats never change a health status, only a settling
\* check of the health cycle does; and the resource without a probe is
\* healthy in every reachable state.
C34_StatusFrame ==
    /\ \A n \in Names : status[n] = "healthy"
    /\ [][/\ PublicCall => status' = status
          /\ status' # status =>
                \E n \in Names, o \in StatusOutcomes : CheckCompleteUnobserved(1, n, o)
          /\ status'["backup"] = "healthy"]_vars

\* the primary was found unhealthy, a call for it was served by the backup
\* and a failure was recorded for the backup, which is still healthy
C34_Witness ==
    /\ status = [n \in Names |-> IF n = "primary" THEN "unhealthy" ELSE "healthy"]
    /\ "primary" \in activeFailovers
    /\ circuits["primary"].state = "open"
    /\ circuits["backup"].failures > 0

\* ------------------------------------------------------------ SpecTimeout
\* HealthMonitor.check where a probe invocation may never complete: the race
\* of an attempt is settled by the probe, or by the timer of the attempt

\* faulty variant: the attempt awaits the probe alone
TimerArmedNever(h) == FALSE

\* check(): setTimeout(() => controller.abort(), this.#timeoutMs) of the
\* attempt in progress, cleared in the finally block
TimerArmed(h) == h.pc = "attempt"

\* the timer of the attempt fires: abort, the race rejects
TimeoutFires == TimerArmed(hc) /\ AttemptSettles("timeout")

\* the probe of the attempt completes before the timer
ProbeCompletes(o) == o # "timeout" /\ AttemptSettles(o)

NextTimeout ==
    \/ CheckCall
    \/ \E o \in AttemptOutcomes : ProbeCompletes(o)
    \/ TimeoutFires
    \/ DelayElapses
    \/ CheckReturns

\* an armed timer fires, a retry delay elapses; a probe need not complete
TimeoutFairness == WF_vars(TimeoutFires) /\ WF_vars(DelayElapses)

SpecTimeout == InitCheck /\ [][NextTimeout]_vars /\ TimeoutFairness

\* ------------------------------------------------- claims on SpecTimeout
\* C35: check() always terminates, whether or not its probe invocations ever
\* complete; when every attempt was ended by its timeout the check returns
\* unhealthy after retries + 1 attempts.
C35_CheckTerminates ==
    /\ (hc.pc \in {"attempt", "delay"}) ~> (hc.pc = "done")
    /\ [](hc.attempts <= hc.retries + 1)
    /\ []((hc.pc = "done" /\ hc.hasProbe
              /\ \A i \in 1..Len(hc.outs) : hc.outs[i] = "timeout")
           => /\ hc.result.status = "unhealthy"
              /\ Len(hc.outs) = hc.retries + 1)

\* with two retries configured three attempts timed out and the check
\* returned unhealthy
C35_Witness ==
    /\ hc.pc = "done"
    /\ hc.retries = 2
    /\ hc.outs = <<"timeout", "timeout", "timeout">>
    /\ hc.result.status = "unhealthy"

\* ---------------------------------------------- further claims on SpecCB
\* C36: in every reachable state of a breaker, closed implies that the
\* failure counter is below the threshold and open implies that a
\* next-attempt time is set, whatever the interleaving of execute
\* completions, success(), failure(), open(), reset() and lazy transitions.
C36_BreakerConsistent ==
    /\ cb.state = "closed" => cb.failures < threshold
    /\ cb.state = "open" => cb.nextAttemptTime # NullTime

\* an operation admitted while the breaker was closed failed after open()
\* was called: the breaker is open with its next attempt scheduled
C36_Witness ==
    /\ cbLast.op = "complete-failure"
    /\ cbForced
    /\ cb.state = "open"
    /\ cb.failures > threshold
    /\ cb.nextAttemptTime # NullTime

\* C37: a success or failure recorded while the circuit is open - by
\* success() / failure() or by an operation admitted earlier that completes -
\* leaves the state open and the scheduled next-attempt time unchanged.
C37_OpenNotPostponed ==
    [][((CBSuccess \/ CBFailure \/ CBCompleteSuccess \/ CBCompleteFailure)
           /\ cb.state = "open" /\ now < cb.nextAttemptTime)
        => (cb'.state = "open" /\ cb'.nextAttemptTime = cb.nextAttemptTime)]_vars

\* ------------------------------------------- further claims on SpecRoute
\* C38: in every reachable state each primary in the active-failover set, which
\* health() and getStats() report with failoverTo set, has a configured
\* backup and a health status that is not healthy.
C38_ActiveFailoverUnhealthy ==
    \A n \in activeFailovers :
        n \in DOMAIN FailoverConfig /\ status[n] # "healthy"

\* ------------------------------------------ further claims on SpecHealth
\* C39: after disconnect() has returned and until the next connect(), no
\* health status changes and no health:changed, circuit:open, circuit:close
\* or health-check error notification is emitted, even if a health cycle was
\* in flight when disconnect() was called.
C39_QuietAfterDisconnect ==
    [][\A k \in 1..MaxCycles, o \in ProbeOutcomes :
          (CheckComplete(k, "primary", o) /\ ~connected) =>
             /\ status' = status
             /\ CheckEvents(k, "primary", o) = <<>>]_vars

====
